---- MODULE Spec2Model ----
(***************************************************************************)
(* Model of the chord-chart engine of evyatar-elad/chords: the paginator   *)
(* (greedy pass + per-page balance pass) and the layout effect that drives *)
(* it, the lyric-line segmenter, the chord tokenizers and the transposer.  *)
(* Strings are sequences of one-character strings.                         *)
(***************************************************************************)
EXTENDS Integers, Sequences, FiniteSets, TLC

VARIABLES
    \* --- paginator, as the pure function of (lines, heights, containerHeight, cols)
    pgLines,            \* lines: the ordered line objects (identities)
    pgHeights,          \* heights: one entry per measured node, in order
    pgContainerHeight,  \* containerHeight
    pgCols,             \* cols
    greedyColumns,      \* result of the greedy pass
    newPages,           \* result of the balance pass (what setPages receives)
    pgPc,               \* "input" before the pass, "done" after it
    \* --- line segmenter
    sgLyrics,           \* lyrics
    sgChords,           \* chords: ChordPosition[] in input order
    sgSemitones,        \* Math.round(transposition * 2)
    segments,           \* the segments the component renders
    sgPc,
    \* --- tokenizers
    tkLabel,            \* a raw chord label
    gluedTokens,        \* tokenizeGluedChords(label)
    gluedRetokens,      \* tokenizeGluedChords of the space-joined gluedTokens
    normTokens,         \* normalizeChordTokens(label)
    normRetokens,       \* normalizeChordTokens of the space-joined normTokens
    scanTokens,         \* the scan-forward normalizeChordTokens(label), with fallback
    tkPc,
    \* --- transposer
    trChord,            \* a chord string
    trDelta,            \* the semitone count n
    transposed,         \* transposeChord(chord, n)
    restored,           \* transposeChord(transposed, -n)
    unrounded,          \* transposeChord(chord, x) for the fractions x that round to 0
    trPc,
    \* --- the SongDisplayPaged component with its layout effect
    fxLines,            \* prop lines (the document shown)
    fxTransposition,    \* prop transposition, in half tones (2 * transposition)
    fxFontSize,         \* prop fontSize, px
    viewport,           \* the container's clientWidth / clientHeight, px
    columnCount,        \* state columnCount
    measureKey,         \* state measureKey
    pages,              \* state pages
    rafQueue,           \* the animation-frame callbacks requested and not yet run
    lastCommit,         \* the last setPages call: the pass's inputs and the current ones
    \* --- chords-only line
    coChords,           \* prop chords: the labels of the line
    coSemitones,        \* Math.round(transposition * 2)
    coUnits,            \* the display units of ChordsOnlyLineNew, each a list of texts
    coUnitsTokenizing,  \* the same for the tokenizing ChordsOnlyLineNew
    coUnitsReversing,   \* the same for the reversing ChordsOnlyLineNew
    coPc,
    \* --- the Index page (its transposition state is fxTransposition)
    originalTransposition,  \* state originalTransposition, in half tones
    currentPage,        \* state currentPage
    ixTotalPages,       \* state totalPages of the Index page
    \* --- other versions of the line segmenter, on the segmenter's inputs
    snapSegments,       \* the segments of the version that snaps without merging
    \* --- auto font scaling of SongDisplayPaged
    fontScale,          \* state fontScale, in thousandths
    scaleTimer,         \* the 100 ms timeout of the auto-scale effect is pending
    layoutPending,      \* a layout pass for the current inputs is on its way
    \* --- the version of the line segmenter with the borrow passes
    plainSegments,      \* result before the passes
    borrowedFromNext,   \* result after the pass that borrows from the next segment
    borrowedSegments    \* result after both passes: the segments rendered

pgVars == <<pgLines, pgHeights, pgContainerHeight, pgCols, greedyColumns, newPages, pgPc>>
sgVars == <<sgLyrics, sgChords, sgSemitones, segments, sgPc>>
tkVars == <<tkLabel, gluedTokens, gluedRetokens, normTokens, normRetokens, scanTokens,
           tkPc>>
trVars == <<trChord, trDelta, transposed, restored, unrounded, trPc>>

fxVars == <<fxLines, fxTransposition, fxFontSize, viewport, columnCount, measureKey,
           pages, rafQueue, lastCommit>>

coVars == <<coChords, coSemitones, coUnits, coUnitsTokenizing, coUnitsReversing, coPc>>

ixVars == <<originalTransposition, currentPage, ixTotalPages>>

\* the state above the components: the page and what later sections add
svVars == <<snapSegments>>

asVars == <<fontScale, scaleTimer, layoutPending>>

bwVars == <<plainSegments, borrowedFromNext, borrowedSegments>>

uiVars == <<ixVars, svVars, asVars, bwVars>>

vars == <<pgVars, sgVars, tkVars, trVars, fxVars, coVars, uiVars>>

-----------------------------------------------------------------------------
(* Bounds of the model                                                      *)

MaxLines == 4
MaxHeight == 5
MaxContainerHeight == 4
MaxCols == 3
MaxLyrics == 4
MaxChords == 3
MaxLabel == 4
MaxChord == 4
MaxSemitones == 13
MaxMeasureKey == 2
MaxOffsetChords == 2
OffsetMargin == 2
MaxModChord == 3
MaxTransposition == 8

-----------------------------------------------------------------------------
(* Generic helpers                                                          *)

Min(a, b) == IF a < b THEN a ELSE b
Max(a, b) == IF a > b THEN a ELSE b

RECURSIVE SumSeq(_)
SumSeq(s) == IF s = <<>> THEN 0 ELSE Head(s) + SumSeq(Tail(s))

RECURSIVE Flatten(_)
Flatten(ss) == IF ss = <<>> THEN <<>> ELSE Head(ss) \o Flatten(Tail(ss))

SeqsUpTo(S, n) == UNION {[1..k -> S] : k \in 0..n}

-----------------------------------------------------------------------------
(* Paginator: SongDisplayPaged, second animation-frame callback             *)

\* heights[i] ?? 0  (i is the 1-based position of the line)
HeightAt(heights, i) == IF i \in 1..Len(heights) THEN heights[i] ELSE 0

\* lineIdxByRef: a WeakMap filled in index order, so a later entry of the same
\* object overwrites an earlier one.
LineIdxByRef(lines, line) ==
    LET idx == {i \in 1..Len(lines) : lines[i] = line}
    IN  IF idx = {} THEN 0 ELSE CHOOSE i \in idx : \A k \in idx : k <= i

\* A greedy loop that, on a column break, closes the column and forgets the line
\* that caused the break.
RECURSIVE GreedyLoopDroppingOnBreak(_, _, _, _, _, _, _)
GreedyLoopDroppingOnBreak(lines, heights, containerHeight, i, cols, colLines, colHeight) ==
    IF i > Len(lines)
    THEN IF Len(colLines) > 0
         THEN Append(cols, [lines |-> colLines, height |-> colHeight])
         ELSE cols
    ELSE LET h == HeightAt(heights, i)
         IN  IF colHeight > 0 /\ colHeight + h > containerHeight
             THEN GreedyLoopDroppingOnBreak(lines, heights, containerHeight, i + 1,
                      Append(cols, [lines |-> colLines, height |-> colHeight]), <<>>, 0)
             ELSE GreedyLoopDroppingOnBreak(lines, heights, containerHeight, i + 1,
                      cols, Append(colLines, lines[i]), colHeight + h)

\* A greedy loop that closes a column as soon as the next line would fill it to
\* the brim.
RECURSIVE GreedyLoopBreakingEarly(_, _, _, _, _, _, _)
GreedyLoopBreakingEarly(lines, heights, containerHeight, i, cols, colLines, colHeight) ==
    IF i > Len(lines)
    THEN IF Len(colLines) > 0
         THEN Append(cols, [lines |-> colLines, height |-> colHeight])
         ELSE cols
    ELSE LET h == HeightAt(heights, i)
             brk == colHeight > 0 /\ colHeight + h >= containerHeight
         IN  IF brk
             THEN GreedyLoopBreakingEarly(lines, heights, containerHeight, i + 1,
                             Append(cols, [lines |-> colLines, height |-> colHeight]),
                             <<lines[i]>>, h)
             ELSE GreedyLoopBreakingEarly(lines, heights, containerHeight, i + 1,
                             cols, Append(colLines, lines[i]), colHeight + h)

\* STEP 1: the greedy loop, from line i on, with the columns closed so far and
\* the column being filled.
RECURSIVE GreedyLoop(_, _, _, _, _, _, _)
GreedyLoop(lines, heights, containerHeight, i, cols, colLines, colHeight) ==
    IF i > Len(lines)
    THEN IF Len(colLines) > 0
         THEN Append(cols, [lines |-> colLines, height |-> colHeight])
         ELSE cols
    ELSE LET h == HeightAt(heights, i)
             brk == colHeight > 0 /\ colHeight + h > containerHeight
         IN  IF brk
             THEN GreedyLoop(lines, heights, containerHeight, i + 1,
                             Append(cols, [lines |-> colLines, height |-> colHeight]),
                             <<lines[i]>>, h)
             ELSE GreedyLoop(lines, heights, containerHeight, i + 1,
                             cols, Append(colLines, lines[i]), colHeight + h)

Greedy(lines, heights, containerHeight) ==
    GreedyLoop(lines, heights, containerHeight, 1, <<>>, <<>>, 0)

\* Math.ceil(totalColumnsGreedy / cols)
CeilDiv(a, b) == (a + b - 1) \div b

\* A redistribution that breaks whenever it should, also in the last column.
RECURSIVE RedistributeLoopUncapped(_, _, _, _, _, _, _, _, _)
RedistributeLoopUncapped(pageLines, pageHeights, containerHeight, activeColsInPage, pageTotalHeight, i, pageCols, colLines, colHeight) ==
    IF i > Len(pageLines)
    THEN IF Len(colLines) > 0 THEN Append(pageCols, colLines) ELSE pageCols
    ELSE LET h == pageHeights[i]
             remainingLines == Len(pageLines) - (i - 1)
             remainingCols == activeColsInPage - Len(pageCols)
             wouldExceedMax == colHeight > 0 /\ colHeight + h > containerHeight
             wouldExceedTarget ==
                 colHeight > 0 /\ (colHeight + h) * activeColsInPage > pageTotalHeight
             hasEnoughForRemainingCols == remainingLines >= remainingCols
             shouldBreak ==
                 \/ wouldExceedMax
                 \/ (wouldExceedTarget /\ hasEnoughForRemainingCols /\ remainingCols > 1)
         IN  IF shouldBreak
             THEN RedistributeLoopUncapped(pageLines, pageHeights, containerHeight,
                                   activeColsInPage, pageTotalHeight, i + 1,
                                   Append(pageCols, colLines), <<pageLines[i]>>, h)
             ELSE RedistributeLoopUncapped(pageLines, pageHeights, containerHeight,
                                   activeColsInPage, pageTotalHeight, i + 1,
                                   pageCols, Append(colLines, pageLines[i]),
                                   colHeight + h)

\* STEP 3: redistribute the lines of one page over its active columns.
\* targetHeightPerColumn = pageTotalHeight / activeColsInPage is a quotient of
\* integers; x > total / active is compared as x * active > total.
RECURSIVE RedistributeLoop(_, _, _, _, _, _, _, _, _)
RedistributeLoop(pageLines, pageHeights, containerHeight, activeColsInPage, pageTotalHeight, i, pageCols, colLines, colHeight) ==
    IF i > Len(pageLines)
    THEN IF Len(colLines) > 0 THEN Append(pageCols, colLines) ELSE pageCols
    ELSE LET h == pageHeights[i]
             remainingLines == Len(pageLines) - (i - 1)
             remainingCols == activeColsInPage - Len(pageCols)
             wouldExceedMax == colHeight > 0 /\ colHeight + h > containerHeight
             wouldExceedTarget ==
                 colHeight > 0 /\ (colHeight + h) * activeColsInPage > pageTotalHeight
             hasEnoughForRemainingCols == remainingLines >= remainingCols
             shouldBreak ==
                 \/ wouldExceedMax
                 \/ (wouldExceedTarget /\ hasEnoughForRemainingCols /\ remainingCols > 1)
         IN  IF shouldBreak /\ Len(pageCols) < activeColsInPage - 1
             THEN RedistributeLoop(pageLines, pageHeights, containerHeight,
                                   activeColsInPage, pageTotalHeight, i + 1,
                                   Append(pageCols, colLines), <<pageLines[i]>>, h)
             ELSE RedistributeLoop(pageLines, pageHeights, containerHeight,
                                   activeColsInPage, pageTotalHeight, i + 1,
                                   pageCols, Append(colLines, pageLines[i]),
                                   colHeight + h)

\* while (pageCols.length < cols) pageCols.push([])
PadCols(pageCols, cols) ==
    pageCols \o [k \in 1..Max(0, cols - Len(pageCols)) |-> <<>>]

\* STEP 2: one page of the balance pass (pageIdx is 0-based as in the code).
BalancePage(lines, heights, containerHeight, cols, greedy, pageIdx) ==
    LET startColIdx == pageIdx * cols
        endColIdx == Min(startColIdx + cols, Len(greedy))
        pageGreedyColumns == SubSeq(greedy, startColIdx + 1, endColIdx)
        pageLines == Flatten([k \in 1..Len(pageGreedyColumns) |-> pageGreedyColumns[k].lines])
        pageHeights == [k \in 1..Len(pageLines) |->
                           HeightAt(heights, LineIdxByRef(lines, pageLines[k]))]
        pageTotalHeight == SumSeq(pageHeights)
        activeColsInPage == Len(pageGreedyColumns)
    IN  PadCols(RedistributeLoop(pageLines, pageHeights, containerHeight,
                                 activeColsInPage, pageTotalHeight, 1, <<>>, <<>>, 0),
                cols)

BalancePages(lines, heights, containerHeight, cols, greedy) ==
    LET totalPagesGreedy == CeilDiv(Len(greedy), cols)
    IN  [p \in 1..totalPagesGreedy |->
            BalancePage(lines, heights, containerHeight, cols, greedy, p - 1)]

\* The layout handed to setPages by the callback: the early branch when no node
\* was measured, else greedy + balance, else one page of empty columns.
Paginate(lines, heights, containerHeight, cols) ==
    IF Len(heights) = 0
    THEN << <<lines>> >>
    ELSE LET balanced == BalancePages(lines, heights, containerHeight, cols,
                                      Greedy(lines, heights, containerHeight))
         IN  IF Len(balanced) = 0
             THEN << [k \in 1..cols |-> <<>>] >>
             ELSE balanced

\* onTotalPagesChange?.(Math.max(1, pages.length))
totalPages(pagesState) == Max(1, Len(pagesState))

-----------------------------------------------------------------------------
(* Characters                                                               *)

\* The Unicode signs are written as named one-character symbols.
USharp == "U+266F"
UFlat == "U+266D"
NBSP == "U+00A0"

UpperRoots == {"A", "B", "C", "D", "E", "F", "G"}
LowerRoots == {"a", "b", "c", "d", "e", "f", "g"}
Digits == {"0", "1", "2", "3", "4", "5", "6", "7", "8", "9"}
LowerLetters == LowerRoots \cup {"h", "i", "j", "k", "l", "m", "n", "o", "p", "q", "r",
                                 "s", "t", "u", "v", "w", "x", "y", "z"}
UpperLetters == UpperRoots \cup {"H", "I", "J", "K", "L", "M", "N", "O", "P", "Q", "R",
                                 "S", "T", "U", "V", "W", "X", "Y", "Z"}
\* the whitespace class, by two of its members: the space and the no-break space
Whitespace == {" ", NBSP}
\* the separator class of the tokenizers: whitespace, parentheses, comma, bidi marks
Separators == Whitespace \cup {"(", ")", ",", "U+200E", "U+200F", "U+202A", "U+202B",
                                "U+202C", "U+202D", "U+202E", "U+2066", "U+2067",
                                "U+2068", "U+2069"}
\* the accidental class: #, b, Unicode sharp, Unicode flat
Accidentals == {"#", "b", USharp, UFlat}
\* /[a-z0-9]/i
AlphaNum == LowerLetters \cup UpperLetters \cup Digits

\* String.prototype.trimEnd / trimStart / trim
RECURSIVE TrimEnd(_)
TrimEnd(s) ==
    IF s # <<>> /\ s[Len(s)] \in Whitespace THEN TrimEnd(SubSeq(s, 1, Len(s) - 1)) ELSE s

RECURSIVE TrimStart(_)
TrimStart(s) == IF s # <<>> /\ Head(s) \in Whitespace THEN TrimStart(Tail(s)) ELSE s

Trim(s) == TrimEnd(TrimStart(s))

-----------------------------------------------------------------------------
(* Transposer: src/lib/transposition.ts                                     *)

CHROMATIC_SCALE ==
    << <<"C">>, <<"C", "#">>, <<"D">>, <<"D", "#">>, <<"E">>, <<"F">>, <<"F", "#">>,
       <<"G">>, <<"G", "#">>, <<"A">>, <<"A", "#">>, <<"B">> >>

\* FLAT_TO_SHARP[note] || note
FlatToSharp(note) ==
    CASE note = <<"D", "b">> -> <<"C", "#">>
      [] note = <<"E", "b">> -> <<"D", "#">>
      [] note = <<"F", "b">> -> <<"E">>
      [] note = <<"G", "b">> -> <<"F", "#">>
      [] note = <<"A", "b">> -> <<"G", "#">>
      [] note = <<"B", "b">> -> <<"A", "#">>
      [] note = <<"C", "b">> -> <<"B">>
      [] OTHER -> note

\* SHARP_TO_FLAT[note], or the note itself when the table has no entry
SharpToFlat(note) ==
    CASE note = <<"C", "#">> -> <<"D", "b">>
      [] note = <<"D", "#">> -> <<"E", "b">>
      [] note = <<"F", "#">> -> <<"G", "b">>
      [] note = <<"G", "#">> -> <<"A", "b">>
      [] note = <<"A", "#">> -> <<"B", "b">>
      [] OTHER -> note

\* chord.split('/'): the parts between the slashes
RECURSIVE SplitSlash(_, _)
SplitSlash(s, cur) ==
    IF s = <<>> THEN <<cur>>
    ELSE IF Head(s) = "/" THEN <<cur>> \o SplitSlash(Tail(s), <<>>)
    ELSE SplitSlash(Tail(s), Append(cur, Head(s)))

NoParse == [ok |-> FALSE]

\* parseChord: null, or root / suffix / bass (hasBass is FALSE when there is no
\* second part, i.e. bass is undefined)
parseChord(chord) ==
    IF chord = <<>> THEN NoParse
    ELSE LET slashParts == SplitSlash(chord, <<>>)
             mainChord == slashParts[1]
         IN  IF mainChord = <<>> \/ mainChord[1] \notin UpperRoots THEN NoParse
             ELSE LET root == IF Len(mainChord) >= 2 /\ mainChord[2] \in {"#", "b"}
                              THEN SubSeq(mainChord, 1, 2)
                              ELSE SubSeq(mainChord, 1, 1)
                  IN  [ok |-> TRUE,
                       root |-> root,
                       suffix |-> SubSeq(mainChord, Len(root) + 1, Len(mainChord)),
                       hasBass |-> Len(slashParts) >= 2,
                       bass |-> IF Len(slashParts) >= 2 THEN slashParts[2] ELSE <<>>]

\* getNoteIndex: 0..11, or -1
getNoteIndex(note) ==
    LET normalizedNote == FlatToSharp(note)
        hits == {k \in 1..12 : CHROMATIC_SCALE[k] = normalizedNote}
    IN  IF hits = {} THEN -1 ELSE (CHOOSE k \in hits : TRUE) - 1

getNoteAtIndex(index, preferFlat) ==
    LET normalizedIndex == ((index % 12) + 12) % 12
        note == CHROMATIC_SCALE[normalizedIndex + 1]
    IN  IF preferFlat THEN SharpToFlat(note) ELSE note

\* A transposeNote that uses the index without looking for -1.
transposeNoteUnchecked(note, semitones) ==
    LET preferFlat == \E k \in 1..Len(note) : note[k] = "b"
        index == getNoteIndex(note)
    IN  getNoteAtIndex(index + semitones, preferFlat)

transposeNote(note, semitones) ==
    LET preferFlat == \E k \in 1..Len(note) : note[k] = "b"
        index == getNoteIndex(note)
    IN  IF index = -1 THEN note ELSE getNoteAtIndex(index + semitones, preferFlat)

\* A transposeChord that parses and rebuilds the chord also for 0 semitones.
transposeChordAlwaysRebuilding(chord, semitones) ==
    LET parsed == parseChord(chord)
    IN  IF ~parsed.ok THEN chord
        ELSE LET result == transposeNote(parsed.root, semitones) \o parsed.suffix
             IN  IF parsed.hasBass /\ parsed.bass # <<>>
                 THEN result \o <<"/">> \o transposeNote(parsed.bass, semitones)
                 ELSE result

\* transposeChord, for an integer number of semitones
transposeChord(chord, semitones) ==
    IF semitones = 0 THEN chord
    ELSE LET parsed == parseChord(chord)
         IN  IF ~parsed.ok THEN chord
             ELSE LET result == transposeNote(parsed.root, semitones) \o parsed.suffix
                  IN  IF parsed.hasBass /\ parsed.bass # <<>>
                      THEN result \o <<"/">> \o transposeNote(parsed.bass, semitones)
                      ELSE result

\* Math.round of the number quarters / 4: the nearest integer, halves upwards
MathRound(quarters) == (quarters + 2) \div 4

\* transposeChord for a semitone count that is not an integer, given in quarters
transposeChordByQuarters(chord, quarters) == transposeChord(chord, MathRound(quarters))

\* the non-integer semitone counts between -1 and 1, in quarters, that round to 0
RoundsToZero == {q \in {-3, -2, -1, 1, 2, 3} : MathRound(q) = 0}

-----------------------------------------------------------------------------
(* Tokenizers                                                               *)

\* normalizeChordTokens of the renderer: the scan loop at (1-based) position i.
RECURSIVE NormLoop(_, _, _, _)
NormLoop(raw, i, tokens, current) ==
    IF i > Len(raw)
    THEN IF current # <<>> THEN Append(tokens, current) ELSE tokens
    ELSE LET ch == raw[i]
             prevChar == IF i > 1 THEN raw[i - 1] ELSE ""
         IN  IF ch \in Separators
             THEN NormLoop(raw, i + 1,
                           IF current # <<>> THEN Append(tokens, current) ELSE tokens,
                           <<>>)
             ELSE IF ch \in UpperRoots
             THEN LET flush == current # <<>> /\ prevChar # "/"
                      toks == IF flush THEN Append(tokens, current) ELSE tokens
                      cur == Append(IF flush THEN <<>> ELSE current, ch)
                  IN  IF i + 1 <= Len(raw) /\ raw[i + 1] \in Accidentals
                      THEN NormLoop(raw, i + 2, toks, Append(cur, raw[i + 1]))
                      ELSE NormLoop(raw, i + 1, toks, cur)
             ELSE IF ch = "/" \/ ch \in AlphaNum
             THEN NormLoop(raw, i + 1, tokens, Append(current, ch))
             ELSE NormLoop(raw, i + 1, tokens, current)

normalizeChordTokens(chordLabel) ==
    LET raw == Trim(chordLabel)
    IN  IF raw = <<>> THEN <<>> ELSE NormLoop(raw, 1, <<>>, <<>>)

\* The scan-forward normalizeChordTokens.  The inner loop that consumes the
\* modifiers of the chord started before index i; it gives the chord and the
\* index of the first character left to the outer loop.  Of the root letters
\* A-G only a, d, g are in ['a','d','s','u','i','g','m'] when lower-cased.
RECURSIVE ScanModifiers(_, _, _)
ScanModifiers(raw, i, chord) ==
    IF i > Len(raw) THEN [chord |-> chord, i |-> i]
    ELSE LET ch == raw[i]
         IN  IF ch = "/"
             THEN IF i + 1 <= Len(raw) /\ raw[i + 1] \in UpperRoots
                  THEN LET withBass == chord \o <<"/", raw[i + 1]>>
                       IN  IF i + 2 <= Len(raw) /\ raw[i + 2] \in Accidentals
                           THEN ScanModifiers(raw, i + 3, Append(withBass, raw[i + 2]))
                           ELSE ScanModifiers(raw, i + 2, withBass)
                  ELSE [chord |-> chord, i |-> i]
             ELSE IF /\ ch \in UpperRoots
                     /\ raw[i - 1] \notin Digits
                     /\ ch \notin {"A", "D", "G"}
             THEN [chord |-> chord, i |-> i]
             ELSE IF ch \in AlphaNum
             THEN ScanModifiers(raw, i + 1, Append(chord, ch))
             ELSE [chord |-> chord, i |-> i]

RECURSIVE ScanLoop(_, _, _)
ScanLoop(raw, i, tokens) ==
    IF i > Len(raw) THEN tokens
    ELSE IF raw[i] \in Separators THEN ScanLoop(raw, i + 1, tokens)
    ELSE IF raw[i] \in UpperRoots
    THEN LET hasAccidental == i + 1 <= Len(raw) /\ raw[i + 1] \in Accidentals
             scanned == IF hasAccidental
                        THEN ScanModifiers(raw, i + 2, <<raw[i], raw[i + 1]>>)
                        ELSE ScanModifiers(raw, i + 1, <<raw[i]>>)
         IN  ScanLoop(raw, scanned.i, Append(tokens, scanned.chord))
    ELSE ScanLoop(raw, i + 1, tokens)

\* raw.split(/\s+/).map(t => t.trim()).filter(Boolean)
RECURSIVE SplitWhitespace(_, _, _)
SplitWhitespace(s, current, parts) ==
    IF s = <<>> THEN IF current # <<>> THEN Append(parts, current) ELSE parts
    ELSE IF Head(s) \in Whitespace
    THEN SplitWhitespace(Tail(s), <<>>,
                         IF current # <<>> THEN Append(parts, current) ELSE parts)
    ELSE SplitWhitespace(Tail(s), Append(current, Head(s)), parts)

normalizeChordTokensScan(chordLabel) ==
    LET raw == Trim(chordLabel)
        tokens == ScanLoop(raw, 1, <<>>)
    IN  IF raw = <<>> THEN <<>>
        ELSE IF tokens = <<>> THEN SplitWhitespace(raw, <<>>, <<>>)
        ELSE tokens

\* First position after the whitespace run that starts at i.
RECURSIVE RunEnd(_, _)
RunEnd(s, i) == IF i <= Len(s) /\ s[i] \in Whitespace THEN RunEnd(s, i + 1) ELSE i

\* replace(/\s+([b#..])(\d+)/g, '$1$2'): drop a whitespace run that is directly
\* followed by an accidental and a digit.
RECURSIVE CleanBeforeModifier(_, _)
CleanBeforeModifier(s, i) ==
    IF i > Len(s) THEN <<>>
    ELSE IF s[i] \in Whitespace
    THEN LET j == RunEnd(s, i)
         IN  IF j + 1 <= Len(s) /\ s[j] \in Accidentals /\ s[j + 1] \in Digits
             THEN CleanBeforeModifier(s, j)
             ELSE SubSeq(s, i, j - 1) \o CleanBeforeModifier(s, j)
    ELSE <<s[i]>> \o CleanBeforeModifier(s, i + 1)

\* replace(/\s+([b#..])$/g, '$1'): drop a whitespace run directly before an
\* accidental that ends the string.
CleanBeforeFinalAccidental(s) ==
    LET n == Len(s)
    IN  IF n >= 2 /\ s[n] \in Accidentals /\ s[n - 1] \in Whitespace
        THEN TrimEnd(SubSeq(s, 1, n - 1)) \o <<s[n]>>
        ELSE s

\* A cleanup that only trims the label.
cleanChordLabelTrimOnly(chordLabel) == IF chordLabel = <<>> THEN chordLabel ELSE Trim(chordLabel)

cleanChordLabel(chordLabel) ==
    IF chordLabel = <<>> THEN chordLabel
    ELSE Trim(CleanBeforeFinalAccidental(CleanBeforeModifier(chordLabel, 1)))

\* A scan loop that starts a new token at every root letter, also after '/'.
RECURSIVE GluedLoopSplittingBass(_, _, _, _)
GluedLoopSplittingBass(raw, i, tokens, current) ==
    IF i > Len(raw)
    THEN IF current # <<>> THEN Append(tokens, current) ELSE tokens
    ELSE LET ch == raw[i]
             prevChar == IF i > 1 THEN raw[i - 1] ELSE ""
             nextChar == IF i + 1 <= Len(raw) THEN raw[i + 1] ELSE ""
             isFlatModifier == ch = "b" /\ nextChar \in Digits
             shouldSplitOnLower ==
                 /\ ch \in LowerRoots
                 /\ current # <<>>
                 /\ prevChar \in Digits \cup {")"}
                 /\ ~isFlatModifier
         IN  IF ch \in Separators
             THEN GluedLoopSplittingBass(raw, i + 1,
                            IF current # <<>> THEN Append(tokens, current) ELSE tokens,
                            <<>>)
             ELSE IF ch \in UpperRoots \/ shouldSplitOnLower
             THEN LET toks == IF current # <<>> THEN Append(tokens, current) ELSE tokens
                  IN  IF i + 1 <= Len(raw) /\ raw[i + 1] \in Accidentals
                      THEN GluedLoopSplittingBass(raw, i + 2, toks, <<ch, raw[i + 1]>>)
                      ELSE GluedLoopSplittingBass(raw, i + 1, toks, <<ch>>)
             ELSE GluedLoopSplittingBass(raw, i + 1, tokens, Append(current, ch))

\* tokenizeGluedChords of the scraper: the scan loop at (1-based) position i.
RECURSIVE GluedLoop(_, _, _, _)
GluedLoop(raw, i, tokens, current) ==
    IF i > Len(raw)
    THEN IF current # <<>> THEN Append(tokens, current) ELSE tokens
    ELSE LET ch == raw[i]
             prevChar == IF i > 1 THEN raw[i - 1] ELSE ""
             nextChar == IF i + 1 <= Len(raw) THEN raw[i + 1] ELSE ""
             isUpperRoot == ch \in UpperRoots
             isLowerRoot == ch \in LowerRoots
             isFlatModifier == ch = "b" /\ nextChar \in Digits
             shouldSplitOnLower ==
                 /\ isLowerRoot
                 /\ current # <<>>
                 /\ prevChar \in Digits \cup {")"}
                 /\ ~isFlatModifier
         IN  IF ch \in Separators
             THEN GluedLoop(raw, i + 1,
                            IF current # <<>> THEN Append(tokens, current) ELSE tokens,
                            <<>>)
             ELSE IF isUpperRoot \/ shouldSplitOnLower
             THEN LET flush == current # <<>> /\ prevChar # "/"
                      toks == IF flush THEN Append(tokens, current) ELSE tokens
                      cur == Append(IF flush THEN <<>> ELSE current, ch)
                  IN  IF i + 1 <= Len(raw) /\ raw[i + 1] \in Accidentals
                      THEN GluedLoop(raw, i + 2, toks, Append(cur, raw[i + 1]))
                      ELSE GluedLoop(raw, i + 1, toks, cur)
             ELSE GluedLoop(raw, i + 1, tokens, Append(current, ch))

tokenizeGluedChords(chordLabel) ==
    LET raw == Trim(cleanChordLabel(chordLabel))
    IN  IF raw = <<>> THEN <<>> ELSE GluedLoop(raw, 1, <<>>, <<>>)

\* tokens.join(" ")
RECURSIVE JoinSpace(_)
JoinSpace(tokens) ==
    IF tokens = <<>> THEN <<>>
    ELSE IF Len(tokens) = 1 THEN tokens[1]
    ELSE tokens[1] \o <<" ">> \o JoinSpace(Tail(tokens))

\* transposeChordLabel of the renderer
transposeChordLabel(chordLabel, semitones) ==
    LET tokens == normalizeChordTokens(chordLabel)
    IN  [k \in 1..Len(tokens) |-> transposeChord(tokens[k], semitones)]

-----------------------------------------------------------------------------
(* Line segmenter: LyricsLinePositioned (word snapping + merge)             *)
(* Offsets are 0-based as in the code; the character at offset p is         *)
(* lyrics[p + 1].                                                           *)

Null == "null"

\* [...chords].sort((a, b) => a.at - b.at): a stable sort by at
\* An insertion that puts a chord before the chords of equal at: an unstable sort.
RECURSIVE InsertByAtUnstable(_, _)
InsertByAtUnstable(sorted, c) ==
    IF sorted = <<>> THEN <<c>>
    ELSE IF sorted[Len(sorted)].at < c.at THEN Append(sorted, c)
    ELSE Append(InsertByAtUnstable(SubSeq(sorted, 1, Len(sorted) - 1), c),
                sorted[Len(sorted)])

RECURSIVE InsertByAt(_, _)
InsertByAt(sorted, c) ==
    IF sorted = <<>> THEN <<c>>
    ELSE IF sorted[Len(sorted)].at <= c.at THEN Append(sorted, c)
    ELSE Append(InsertByAt(SubSeq(sorted, 1, Len(sorted) - 1), c), sorted[Len(sorted)])

RECURSIVE SortByAt(_)
SortByAt(chords) ==
    IF chords = <<>> THEN <<>>
    ELSE InsertByAt(SortByAt(SubSeq(chords, 1, Len(chords) - 1)), chords[Len(chords)])

\* lyrics.lastIndexOf(" ", fromIndex): the greatest offset <= max(0, fromIndex)
\* that holds a space, or -1
LastIndexOfSpace(lyrics, fromIndex) ==
    LET from == Min(Max(0, fromIndex), Len(lyrics))
        hits == {p \in 0..from : p < Len(lyrics) /\ lyrics[p + 1] = " "}
    IN  IF hits = {} THEN -1 ELSE CHOOSE p \in hits : \A q \in hits : q <= p

\* A snap that does not look at the end of the previous segment.
computeSnappedAtIgnoringLastEnd(lyrics, lastEnd, at) ==
    LET clampedAt == Min(Max(0, at), Len(lyrics))
        prevSpace == LastIndexOfSpace(lyrics, clampedAt - 1)
        wordStart == IF prevSpace >= 0 THEN prevSpace + 1 ELSE 0
    IN  IF wordStart < clampedAt THEN wordStart ELSE clampedAt

\* A snap that takes the offset as it comes, without clamping it.
computeSnappedAtUnclamped(lyrics, lastEnd, at) ==
    LET prevSpace == LastIndexOfSpace(lyrics, at - 1)
        wordStart == IF prevSpace >= 0 THEN prevSpace + 1 ELSE 0
    IN  IF wordStart >= lastEnd /\ wordStart < at THEN wordStart ELSE at

computeSnappedAt(lyrics, lastEnd, at) ==
    LET clampedAt == Min(Max(0, at), Len(lyrics))
        prevSpace == LastIndexOfSpace(lyrics, clampedAt - 1)
        wordStart == IF prevSpace >= 0 THEN prevSpace + 1 ELSE 0
    IN  IF wordStart >= lastEnd /\ wordStart < clampedAt THEN wordStart ELSE clampedAt

\* lyrics.slice(from, to): a negative index counts from the end, an index
\* beyond the end is the end, and the result is empty when from >= to
Slice(lyrics, from, to) ==
    LET length == Len(lyrics)
        first == IF from < 0 THEN Max(length + from, 0) ELSE Min(from, length)
        last == IF to < 0 THEN Max(length + to, 0) ELSE Min(to, length)
    IN  SubSeq(lyrics, first + 1, last)

\* The end of the merge loop: the first j >= i (1-based) whose chord does not
\* snap to startAt.
RECURSIVE MergeEnd(_, _, _, _, _)
MergeEnd(lyrics, sorted, lastEnd, startAt, j) ==
    IF j <= Len(sorted) /\ computeSnappedAt(lyrics, lastEnd, sorted[j].at) = startAt
    THEN MergeEnd(lyrics, sorted, lastEnd, startAt, j + 1)
    ELSE j

\* The body of the for loop over sorted, at (1-based) index i.  Beside text and
\* chordTokens a segment records the loop's startAt and clampedNext and the
\* chords it merged (from, to, group): values of the loop's locals.
RECURSIVE SegmentLoop(_, _, _, _, _, _)
SegmentLoop(lyrics, sorted, semitones, i, lastEnd, result) ==
    IF i > Len(sorted)
    THEN IF lastEnd < Len(lyrics)
         THEN Append(result, [text |-> TrimEnd(Slice(lyrics, lastEnd, Len(lyrics))),
                              chordTokens |-> Null,
                              from |-> lastEnd, to |-> Len(lyrics), group |-> <<>>])
         ELSE result
    ELSE LET startAt == computeSnappedAt(lyrics, lastEnd, sorted[i].at)
             before ==
                 IF startAt > lastEnd
                 THEN Append(result, [text |-> Slice(lyrics, lastEnd, startAt),
                                      chordTokens |-> Null,
                                      from |-> lastEnd, to |-> startAt, group |-> <<>>])
                 ELSE result
             j == MergeEnd(lyrics, sorted, lastEnd, startAt, i)
             group == SubSeq(sorted, i, j - 1)
             mergedChordTokens ==
                 Flatten([k \in 1..Len(group) |->
                             transposeChordLabel(group[k].chord, semitones)])
             nextAt == IF j <= Len(sorted) THEN sorted[j].at ELSE Len(lyrics)
             clampedNext == Min(Max(startAt, nextAt), Len(lyrics))
             sliced == Slice(lyrics, startAt, clampedNext)
             isLastChordSegment == j > Len(sorted) /\ clampedNext >= Len(lyrics)
             segmentText == IF isLastChordSegment THEN TrimEnd(sliced) ELSE sliced
         IN  SegmentLoop(lyrics, sorted, semitones, j, clampedNext,
                 Append(before,
                        [text |-> IF segmentText # <<>> THEN segmentText ELSE <<NBSP>>,
                         chordTokens |-> IF mergedChordTokens # <<>>
                                         THEN mergedChordTokens ELSE << <<NBSP>> >>,
                         from |-> startAt, to |-> clampedNext, group |-> group]))

\* The segments memo of LyricsLinePositioned
Segments(lyrics, chords, semitones) ==
    IF lyrics = <<>> THEN <<>>
    ELSE IF chords = <<>>
    THEN << [text |-> lyrics, chordTokens |-> Null,
             from |-> 0, to |-> Len(lyrics), group |-> <<>>] >>
    ELSE SegmentLoop(lyrics, SortByAt(chords), semitones, 1, 0, <<>>)

\* A segment end one character short of the next chord.
clampedNextShort(lyrics, startAt, nextAt) == Min(Max(startAt, nextAt - 1), Len(lyrics))

\* clampedNext: where a chord's segment ends, given the next chord's raw offset
clampedNextOf(lyrics, startAt, nextAt) == Min(Max(startAt, nextAt), Len(lyrics))

\* The version of the segmenter that snaps each chord by itself and merges
\* nothing: the body of its for loop at (1-based) index i.  A chord segment
\* carries one chord; group is that chord, for comparison with the merging loop.
RECURSIVE SnapLoop(_, _, _, _, _, _)
SnapLoop(lyrics, sorted, semitones, i, lastEnd, result) ==
    IF i > Len(sorted)
    THEN IF lastEnd < Len(lyrics)
         THEN Append(result, [text |-> TrimEnd(Slice(lyrics, lastEnd, Len(lyrics))),
                              chord |-> Null,
                              from |-> lastEnd, to |-> Len(lyrics), group |-> <<>>])
         ELSE result
    ELSE LET clampedAt == computeSnappedAt(lyrics, lastEnd, sorted[i].at)
             before ==
                 IF clampedAt > lastEnd
                 THEN Append(result, [text |-> Slice(lyrics, lastEnd, clampedAt),
                                      chord |-> Null,
                                      from |-> lastEnd, to |-> clampedAt, group |-> <<>>])
                 ELSE result
             nextAt == IF i + 1 <= Len(sorted) THEN sorted[i + 1].at ELSE Len(lyrics)
             clampedNext == clampedNextOf(lyrics, clampedAt, nextAt)
             sliced == Slice(lyrics, clampedAt, clampedNext)
             isLastChordSegment == i = Len(sorted) /\ clampedNext >= Len(lyrics)
             segmentText == IF isLastChordSegment THEN TrimEnd(sliced) ELSE sliced
         IN  SnapLoop(lyrics, sorted, semitones, i + 1, clampedNext,
                 Append(before,
                        [text |-> IF segmentText # <<>> THEN segmentText ELSE <<NBSP>>,
                         chord |-> transposeChord(sorted[i].chord, semitones),
                         from |-> clampedAt, to |-> clampedNext,
                         group |-> <<sorted[i]>>]))

SnapSegments(lyrics, chords, semitones) ==
    IF lyrics = <<>> THEN <<>>
    ELSE IF chords = <<>>
    THEN << [text |-> lyrics, chord |-> Null,
             from |-> 0, to |-> Len(lyrics), group |-> <<>>] >>
    ELSE SnapLoop(lyrics, SortByAt(chords), semitones, 1, 0, <<>>)

\* The version of the segmenter that neither snaps nor merges and ends with
\* two borrow passes (src/components/song/LyricsLinePositioned.tsx).
MIN_SEG_CHARS == 4

\* curr.text === " " ? "" : curr.text
TextOrEmpty(text) == IF text = <<NBSP>> THEN <<>> ELSE text

\* text || " "
TextOrPlaceholder(text) == IF text = <<>> THEN <<NBSP>> ELSE text

\* !curr.chord
NoChord(chord) == chord = Null \/ chord = <<>>

\* The body of the for loop over sorted, at (1-based) index i.
RECURSIVE PlainLoop(_, _, _, _, _, _)
PlainLoop(lyrics, sorted, semitones, i, lastEnd, result) ==
    IF i > Len(sorted)
    THEN IF lastEnd < Len(lyrics)
         THEN Append(result, [text |-> Slice(lyrics, lastEnd, Len(lyrics)),
                              chord |-> Null])
         ELSE result
    ELSE LET clampedAt == Min(Max(0, sorted[i].at), Len(lyrics))
             before ==
                 IF clampedAt > lastEnd
                 THEN Append(result, [text |-> Slice(lyrics, lastEnd, clampedAt),
                                      chord |-> Null])
                 ELSE result
             nextAt == IF i + 1 <= Len(sorted) THEN sorted[i + 1].at ELSE Len(lyrics)
             clampedNext == Min(Max(clampedAt, nextAt), Len(lyrics))
             segmentText == Slice(lyrics, clampedAt, clampedNext)
         IN  PlainLoop(lyrics, sorted, semitones, i + 1, clampedNext,
                 Append(before,
                        [text |-> TextOrPlaceholder(segmentText),
                         chord |-> transposeChord(sorted[i].chord, semitones)]))

\* Heuristic 1: a short chord segment borrows from the start of the next
\* segment; the loop from (1-based) index i on.
RECURSIVE BorrowFromNext(_, _)
BorrowFromNext(result, i) ==
    IF i > Len(result) - 1 THEN result
    ELSE LET curr == result[i]
             next == result[i + 1]
             currText == TextOrEmpty(curr.text)
             nextText == TextOrEmpty(next.text)
             need == Min(MIN_SEG_CHARS - Len(currText), Len(nextText))
             take == Slice(nextText, 0, need)
             rest == Slice(nextText, need, Len(nextText))
         IN  IF NoChord(curr.chord) THEN BorrowFromNext(result, i + 1)
             ELSE IF Len(currText) >= MIN_SEG_CHARS \/ Len(nextText) = 0
             THEN BorrowFromNext(result, i + 1)
             ELSE BorrowFromNext(
                      [result EXCEPT ![i].text = TextOrPlaceholder(currText \o take),
                                     ![i + 1].text = TextOrPlaceholder(rest)],
                      i + 1)

\* Heuristic 2: a short segment borrows from the end of the previous segment;
\* the loop from (1-based) index i down to 2.
RECURSIVE BorrowFromPrev(_, _)
BorrowFromPrev(result, i) ==
    IF i < 2 THEN result
    ELSE LET curr == result[i]
             prev == result[i - 1]
             currText == TextOrEmpty(curr.text)
             prevText == TextOrEmpty(prev.text)
             need == Min(MIN_SEG_CHARS - Len(currText), Len(prevText))
             take == Slice(prevText, Max(0, Len(prevText) - need), Len(prevText))
             rest == Slice(prevText, 0, Max(0, Len(prevText) - need))
         IN  IF Len(currText) >= MIN_SEG_CHARS \/ Len(prevText) = 0
             THEN BorrowFromPrev(result, i - 1)
             ELSE BorrowFromPrev(
                      [result EXCEPT ![i - 1].text = TextOrPlaceholder(rest),
                                     ![i].text = TextOrPlaceholder(take \o currText)],
                      i - 1)

\* result before the passes; <<>> stands for both early returns, which run no
\* pass
PlainSegments(lyrics, chords, semitones) ==
    IF lyrics = <<>> \/ chords = <<>> THEN <<>>
    ELSE PlainLoop(lyrics, SortByAt(chords), semitones, 1, 0, <<>>)

\* The segments memo
BorrowedSegments(lyrics, chords, semitones) ==
    IF lyrics = <<>> THEN <<>>
    ELSE IF chords = <<>> THEN << [text |-> lyrics, chord |-> Null] >>
    ELSE LET result == PlainSegments(lyrics, chords, semitones)
         IN  BorrowFromPrev(BorrowFromNext(result, 1), Len(result))

-----------------------------------------------------------------------------
(* Chords-only lines: ChordsOnlyLineNew.  A display unit is the list of the *)
(* texts one chord of the line is shown as.                                  *)

Reverse(s) == [i \in 1..Len(s) |-> s[Len(s) + 1 - i]]

\* src/components/song/ChordsOnlyLineNew.tsx: one span per chord, holding
\* transposeChord of the label as it is
ChordsOnlyLineNew(chords, semitones) ==
    [i \in 1..Len(chords) |-> << transposeChord(chords[i], semitones) >>]

\* The tokenizing version: chords.flatMap over the parts of transposeChordLabel,
\* one span per part
ChordsOnlyLineNewTokenizing(chords, semitones) ==
    LET parts == Flatten([i \in 1..Len(chords) |->
                             transposeChordLabel(chords[i], semitones)])
    IN  [k \in 1..Len(parts) |-> << parts[k] >>]

\* The reversing version: [...chords].reverse(), one span per chord
ChordsOnlyLineNewReversing(chords, semitones) ==
    LET reversed == Reverse(chords)
    IN  [i \in 1..Len(reversed) |-> << transposeChord(reversed[i], semitones) >>]

-----------------------------------------------------------------------------
(* Specification of the paginator as a function of its inputs               *)

LineIds(n) == [i \in 1..n |-> i]

PgInputs ==
    /\ \E n \in 0..MaxLines :
         /\ pgLines = LineIds(n)
         /\ pgHeights \in UNION {[1..m -> 0..MaxHeight] : m \in 0..n}
    /\ pgContainerHeight \in 1..MaxContainerHeight
    /\ pgCols \in 1..MaxCols
    /\ greedyColumns = <<>>
    /\ newPages = <<>>
    /\ pgPc = "input"

\* The parts of the state a specification does not use stay at these values.
PgIdle ==
    /\ pgLines = <<>> /\ pgHeights = <<>> /\ pgContainerHeight = 1 /\ pgCols = 1
    /\ greedyColumns = <<>> /\ newPages = <<>> /\ pgPc = "idle"

SgIdle ==
    /\ sgLyrics = <<>> /\ sgChords = <<>> /\ sgSemitones = 0 /\ segments = <<>> /\ sgPc = "idle"

TkIdle ==
    /\ tkLabel = <<>> /\ gluedTokens = <<>> /\ gluedRetokens = <<>>
    /\ normTokens = <<>> /\ normRetokens = <<>> /\ scanTokens = <<>> /\ tkPc = "idle"

TrIdle ==
    /\ trChord = <<>> /\ trDelta = 0 /\ transposed = <<>> /\ restored = <<>>
    /\ unrounded = <<>> /\ trPc = "idle"

NoCommit == [made |-> FALSE]

FxIdle ==
    /\ fxLines = <<>> /\ fxTransposition = 0 /\ fxFontSize = 0
    /\ viewport = [width |-> 0, height |-> 0]
    /\ columnCount = 1 /\ measureKey = 0 /\ pages = <<>> /\ rafQueue = <<>>
    /\ lastCommit = NoCommit

CoIdle ==
    /\ coChords = <<>> /\ coSemitones = 0 /\ coUnits = <<>>
    /\ coUnitsTokenizing = <<>> /\ coUnitsReversing = <<>> /\ coPc = "idle"

IxIdle == originalTransposition = 0 /\ currentPage = 0 /\ ixTotalPages = 1

SvIdle == snapSegments = <<>>

AsIdle == fontScale = 1000 /\ scaleTimer = FALSE /\ layoutPending = FALSE

BwIdle == plainSegments = <<>> /\ borrowedFromNext = <<>> /\ borrowedSegments = <<>>

UiIdle == IxIdle /\ SvIdle /\ AsIdle /\ BwIdle

PgInit == PgInputs /\ SgIdle /\ TkIdle /\ TrIdle /\ FxIdle /\ CoIdle /\ UiIdle

RunPagination ==
    /\ pgPc = "input"
    /\ greedyColumns' = Greedy(pgLines, pgHeights, pgContainerHeight)
    /\ newPages' = Paginate(pgLines, pgHeights, pgContainerHeight, pgCols)
    /\ pgPc' = "done"
    /\ UNCHANGED <<pgLines, pgHeights, pgContainerHeight, pgCols>>
    /\ UNCHANGED <<sgVars, tkVars, trVars, fxVars, coVars, uiVars>>

PgNext == RunPagination

SpecPaginate == PgInit /\ [][PgNext]_vars

-----------------------------------------------------------------------------
(* Specification of the segmenter as a function of its inputs               *)

\* Every letter of an input line is different, so that a dropped, doubled or
\* moved character shows: offset p holds a space or the p-th letter.
Letters == <<"a", "b", "c", "d", "e", "f", "g", "h">>
LetterAt(p) == Letters[((p - 1) % Len(Letters)) + 1]
LyricsInputs ==
    UNION {[1..n -> {" ", "x"}] : n \in 0..MaxLyrics}
LyricsOf(s) == [p \in 1..Len(s) |-> IF s[p] = " " THEN " " ELSE LetterAt(p)]

\* The k-th chord of the input carries the k-th label: a plain chord, a glued
\* label, a label without any chord character, a second plain chord.
InputLabels == << <<"G">>, <<"E", "7", "A", "m">>, <<"%">>, <<"D">> >>
LabelAt(k) == InputLabels[((k - 1) % Len(InputLabels)) + 1]

SegSemitones == {0, 2}

SgInputs ==
    /\ \E s \in LyricsInputs : sgLyrics = LyricsOf(s)
    /\ \E k \in 0..MaxChords :
         \E ats \in [1..k -> -1..(Len(sgLyrics) + 1)] :
             sgChords = [i \in 1..k |-> [chord |-> LabelAt(i), at |-> ats[i], id |-> i]]
    /\ sgSemitones \in SegSemitones
    /\ segments = <<>>
    /\ sgPc = "input"

SgInit == SgInputs /\ PgIdle /\ TkIdle /\ TrIdle /\ FxIdle /\ CoIdle /\ UiIdle

RenderLine ==
    /\ sgPc = "input"
    /\ segments' = Segments(sgLyrics, sgChords, sgSemitones)
    /\ sgPc' = "done"
    /\ UNCHANGED <<sgLyrics, sgChords, sgSemitones>>
    /\ UNCHANGED <<pgVars, tkVars, trVars, fxVars, coVars, uiVars>>

SgNext == RenderLine

SpecSegment == SgInit /\ [][SgNext]_vars

\* The segmenter on lines whose chord offsets reach OffsetMargin positions
\* beyond either end of the lyrics.
SgOffsetInputs ==
    /\ \E s \in LyricsInputs : sgLyrics = LyricsOf(s)
    /\ \E k \in 0..MaxOffsetChords :
         \E ats \in [1..k -> (0 - OffsetMargin)..(Len(sgLyrics) + OffsetMargin)] :
             sgChords = [i \in 1..k |-> [chord |-> LabelAt(i), at |-> ats[i], id |-> i]]
    /\ sgSemitones \in SegSemitones
    /\ segments = <<>>
    /\ sgPc = "input"

SgOffsetInit == SgOffsetInputs /\ PgIdle /\ TkIdle /\ TrIdle /\ FxIdle /\ CoIdle /\ UiIdle

SpecSegmentOffsets == SgOffsetInit /\ [][SgNext]_vars

-----------------------------------------------------------------------------
(* Specification of the chords-only line as a function of its props         *)

CoLabels == {InputLabels[k] : k \in 1..Len(InputLabels)}

CoInputs ==
    /\ coChords \in SeqsUpTo(CoLabels, MaxChords)
    /\ coSemitones \in SegSemitones
    /\ coUnits = <<>> /\ coUnitsTokenizing = <<>> /\ coUnitsReversing = <<>>
    /\ coPc = "input"

CoInit == CoInputs /\ PgIdle /\ SgIdle /\ TkIdle /\ TrIdle /\ FxIdle /\ UiIdle

RenderChordsOnly ==
    /\ coPc = "input"
    /\ coUnits' = ChordsOnlyLineNew(coChords, coSemitones)
    /\ coUnitsTokenizing' = ChordsOnlyLineNewTokenizing(coChords, coSemitones)
    /\ coUnitsReversing' = ChordsOnlyLineNewReversing(coChords, coSemitones)
    /\ coPc' = "done"
    /\ UNCHANGED <<coChords, coSemitones>>
    /\ UNCHANGED <<pgVars, sgVars, tkVars, trVars, fxVars, uiVars>>

CoNext == RenderChordsOnly

SpecChordsOnly == CoInit /\ [][CoNext]_vars

-----------------------------------------------------------------------------
(* Specification of the tokenizers as functions of the tkLabel                *)

TkAlphabet == {"A", "C", "G", "m", "7", "b", "#", "/", " ", "("}

TkInputs ==
    /\ tkLabel \in SeqsUpTo(TkAlphabet, MaxLabel)
    /\ gluedTokens = <<>> /\ gluedRetokens = <<>>
    /\ normTokens = <<>> /\ normRetokens = <<>> /\ scanTokens = <<>>
    /\ tkPc = "input"

TkInit == TkInputs /\ PgIdle /\ SgIdle /\ TrIdle /\ FxIdle /\ CoIdle /\ UiIdle

Tokenize ==
    /\ tkPc = "input"
    /\ gluedTokens' = tokenizeGluedChords(tkLabel)
    /\ normTokens' = normalizeChordTokens(tkLabel)
    /\ scanTokens' = normalizeChordTokensScan(tkLabel)
    /\ tkPc' = "once"
    /\ UNCHANGED <<tkLabel, gluedRetokens, normRetokens>>
    /\ UNCHANGED <<pgVars, sgVars, trVars, fxVars, coVars, uiVars>>

Retokenize ==
    /\ tkPc = "once"
    /\ gluedRetokens' = tokenizeGluedChords(JoinSpace(gluedTokens))
    /\ normRetokens' = normalizeChordTokens(JoinSpace(normTokens))
    /\ tkPc' = "twice"
    /\ UNCHANGED <<tkLabel, gluedTokens, normTokens, scanTokens>>
    /\ UNCHANGED <<pgVars, sgVars, trVars, fxVars, coVars, uiVars>>

TkNext == Tokenize \/ Retokenize

SpecTokenize == TkInit /\ [][TkNext]_vars

\* The tokenizers on labels that end in a modifier (an accidental and digits),
\* with or without whitespace in front of it.
ModChordAlphabet == {"C", "G", "m", "7", "b", "#", "/"}
ModGaps == {<<>>, <<" ">>, <<NBSP>>, <<" ", " ">>}
ModModifiers == {<<a, "5">> : a \in Accidentals} \cup {<<a, "1", "3">> : a \in Accidentals}

TkModInputs ==
    /\ \E chord \in SeqsUpTo(ModChordAlphabet, MaxModChord) :
         \E gap \in ModGaps : \E modifier \in ModModifiers :
             tkLabel = chord \o gap \o modifier
    /\ gluedTokens = <<>> /\ gluedRetokens = <<>>
    /\ normTokens = <<>> /\ normRetokens = <<>> /\ scanTokens = <<>>
    /\ tkPc = "input"

TkModInit == TkModInputs /\ PgIdle /\ SgIdle /\ TrIdle /\ FxIdle /\ CoIdle /\ UiIdle

SpecTokenizeModifier == TkModInit /\ [][TkNext]_vars

-----------------------------------------------------------------------------
(* Specification of the transposer as a function of (chord, n)              *)

TrAlphabet == {"B", "C", "#", "b", "/", "m"}

TrInputs ==
    /\ trChord \in SeqsUpTo(TrAlphabet, MaxChord)
    /\ trDelta \in -MaxSemitones..MaxSemitones
    /\ transposed = <<>> /\ restored = <<>> /\ unrounded = <<>>
    /\ trPc = "input"

TrInit == TrInputs /\ PgIdle /\ SgIdle /\ TkIdle /\ FxIdle /\ CoIdle /\ UiIdle

Transpose ==
    /\ trPc = "input"
    /\ transposed' = transposeChord(trChord, trDelta)
    /\ restored' = transposeChord(transposeChord(trChord, trDelta), -trDelta)
    /\ unrounded' = [q \in RoundsToZero |-> transposeChordByQuarters(trChord, q)]
    /\ trPc' = "done"
    /\ UNCHANGED <<trChord, trDelta>>
    /\ UNCHANGED <<pgVars, sgVars, tkVars, fxVars, coVars, uiVars>>

TrNext == Transpose

SpecTranspose == TrInit /\ [][TrNext]_vars

-----------------------------------------------------------------------------
(* The SongDisplayPaged component: props, state, and the layout effect with *)
(* its two nested requestAnimationFrame callbacks.  Lengths are in tenths   *)
(* of a pixel where the code multiplies by 1.8, 0.5 or 1.5.                 *)

getColumnCount(width, height) ==
    IF width >= 900 /\ height > 700 THEN 3
    ELSE IF height > width THEN 2
    ELSE IF height <= 700 THEN 3
    ELSE 2

\* containerHeight of the effect body, in tenths of a pixel (padTop and
\* padBottom of the container are 0)
ContainerHeight10(vp, fontSize) ==
    LET lineHeightPx10 == fontSize * 18
        isPortrait == vp.height > vp.width
        isLandscape == ~isPortrait /\ vp.height <= 700
        safetyPx10 == IF isPortrait THEN lineHeightPx10 \div 2
                      ELSE IF isLandscape THEN lineHeightPx10
                      ELSE (lineHeightPx10 * 3) \div 2
    IN  Max(0, vp.height * 10 - safetyPx10)

\* The documents a session can show.  A line is its object identity; lines
\* 1..3 make the first song, lines 4..8 the second; a song can have no line.
Docs == { <<>>, <<1, 2, 3>>, <<4, 5, 6, 7, 8>> }
FontSizes == {16, 20}
Transpositions == {0, 1}
Viewports == { [width |-> 200, height |-> 100], [width |-> 100, height |-> 200] }
\* A container lower than the safety margin: the effect finds containerHeight 0.
SmallViewport == [width |-> 200, height |-> 20]

\* Math.ceil(node.offsetHeight) of the hidden measuring node of a line, px: a
\* lyrics line is a chord row over a text row, odd lines are one row (section
\* or empty lines); a transposed label can make line 5 wrap.
NodeHeight(line, fontSize, transposition) ==
    LET rowPx == (fontSize * 18 + 9) \div 10
        rows == (IF line % 2 = 1 THEN 1 ELSE 2)
                + (IF line = 5 /\ transposition # 0 THEN 1 ELSE 0)
    IN  rows * rowPx

\* heights read by the second callback: the measuring subtree as rendered now
MeasuredHeights10 ==
    [i \in 1..Len(fxLines) |-> 10 * NodeHeight(fxLines[i], fxFontSize, fxTransposition)]

\* cancelAnimationFrame(raf1): the effect cleanup
CancelRaf1(queue) == SelectSeq(queue, LAMBDA cb : cb.kind # "raf1")

\* One run of the layout effect after a render with the given props and state:
\* the cleanup of the previous run, then the body.
RunEffect(queue, lines, transposition, fontSize, vp, cols) ==
    LET containerHeight == ContainerHeight10(vp, fontSize)
        cleaned == CancelRaf1(queue)
    IN  IF containerHeight = 0 \/ vp.width = 0 \/ cols = 0
        THEN cleaned
        ELSE Append(cleaned,
                    [kind |-> "raf1",
                     lines |-> lines, transposition |-> transposition,
                     fontSize |-> fontSize, cols |-> cols,
                     containerHeight |-> containerHeight])

\* The pass's inputs as the callback's closure holds them, and as they are now.
ClosureInputs(cb) ==
    [lines |-> cb.lines, transposition |-> cb.transposition,
     fontSize |-> cb.fontSize, cols |-> cb.cols]
CurrentInputs ==
    [lines |-> fxLines, transposition |-> fxTransposition,
     fontSize |-> fxFontSize, cols |-> columnCount]

\* One animation frame: the callbacks requested before it run in request order;
\* raf1 requests raf2 for the next frame, raf2 measures and calls setPages.
RECURSIVE RunCallbacks(_, _)
RunCallbacks(queue, acc) ==
    IF queue = <<>> THEN acc
    ELSE LET cb == Head(queue)
         IN  IF cb.kind = "raf1"
             THEN RunCallbacks(Tail(queue),
                      [acc EXCEPT !.next = Append(@, [cb EXCEPT !.kind = "raf2"])])
             ELSE RunCallbacks(Tail(queue),
                      [acc EXCEPT !.pages = Paginate(cb.lines, MeasuredHeights10,
                                                     cb.containerHeight, cb.cols),
                                  !.commit = [made |-> TRUE,
                                              from |-> ClosureInputs(cb),
                                              current |-> CurrentInputs]])

FxInit ==
    /\ fxLines \in Docs
    /\ fxTransposition = 0
    /\ fxFontSize = 16
    /\ viewport \in Viewports
    /\ columnCount = getColumnCount(viewport.width, viewport.height)
    /\ measureKey = 0
    /\ pages = <<>>
    /\ rafQueue = RunEffect(<<>>, fxLines, fxTransposition, fxFontSize, viewport, columnCount)
    /\ lastCommit = NoCommit
    /\ PgIdle /\ SgIdle /\ TkIdle /\ TrIdle /\ CoIdle /\ UiIdle

\* The parent loads another song.
LoadSong ==
    /\ \E doc \in Docs \ {fxLines} :
         /\ fxLines' = doc
         /\ rafQueue' = RunEffect(rafQueue, doc, fxTransposition, fxFontSize,
                                  viewport, columnCount)
    /\ UNCHANGED <<fxTransposition, fxFontSize, viewport, columnCount, measureKey,
                   pages, lastCommit>>
    /\ UNCHANGED <<pgVars, sgVars, tkVars, trVars, coVars, uiVars>>

ChangeTransposition ==
    /\ \E t \in Transpositions \ {fxTransposition} :
         /\ fxTransposition' = t
         /\ rafQueue' = RunEffect(rafQueue, fxLines, t, fxFontSize, viewport, columnCount)
    /\ UNCHANGED <<fxLines, fxFontSize, viewport, columnCount, measureKey, pages,
                   lastCommit>>
    /\ UNCHANGED <<pgVars, sgVars, tkVars, trVars, coVars, uiVars>>

ChangeFontSize ==
    /\ \E f \in FontSizes \ {fxFontSize} :
         /\ fxFontSize' = f
         /\ rafQueue' = RunEffect(rafQueue, fxLines, fxTransposition, f, viewport,
                                  columnCount)
    /\ UNCHANGED <<fxLines, fxTransposition, viewport, columnCount, measureKey, pages,
                   lastCommit>>
    /\ UNCHANGED <<pgVars, sgVars, tkVars, trVars, coVars, uiVars>>

\* The ResizeObserver callback: setColumnCount and setMeasureKey(k => k + 1).
Resize ==
    /\ measureKey < MaxMeasureKey
    /\ \E vp \in Viewports \cup {SmallViewport} :
         /\ viewport' = vp
         /\ columnCount' = getColumnCount(vp.width, vp.height)
         /\ rafQueue' = RunEffect(rafQueue, fxLines, fxTransposition, fxFontSize, vp,
                                  getColumnCount(vp.width, vp.height))
    /\ measureKey' = measureKey + 1
    /\ UNCHANGED <<fxLines, fxTransposition, fxFontSize, pages, lastCommit>>
    /\ UNCHANGED <<pgVars, sgVars, tkVars, trVars, coVars, uiVars>>

\* A re-measure timer (150, 500, 1000, 2000 ms, or 200 ms after fonts.ready).
RemeasureTimer ==
    /\ measureKey < MaxMeasureKey
    /\ measureKey' = measureKey + 1
    /\ rafQueue' = RunEffect(rafQueue, fxLines, fxTransposition, fxFontSize, viewport,
                             columnCount)
    /\ UNCHANGED <<fxLines, fxTransposition, fxFontSize, viewport, columnCount, pages,
                   lastCommit>>
    /\ UNCHANGED <<pgVars, sgVars, tkVars, trVars, coVars, uiVars>>

AnimationFrame ==
    /\ rafQueue # <<>>
    /\ LET out == RunCallbacks(rafQueue, [next |-> <<>>, pages |-> pages,
                                          commit |-> lastCommit])
       IN  /\ rafQueue' = out.next
           /\ pages' = out.pages
           /\ lastCommit' = out.commit
    /\ UNCHANGED <<fxLines, fxTransposition, fxFontSize, viewport, columnCount, measureKey>>
    /\ UNCHANGED <<pgVars, sgVars, tkVars, trVars, coVars, uiVars>>

FxNext ==
    \/ LoadSong
    \/ ChangeTransposition
    \/ ChangeFontSize
    \/ Resize
    \/ RemeasureTimer
    \/ AnimationFrame

SpecEffect == FxInit /\ [][FxNext]_vars

\* What a frame leaves in the queue: the second callbacks requested by the
\* first callbacks it ran.
QueueAfterFrame(queue) ==
    LET firsts == SelectSeq(queue, LAMBDA cb : cb.kind = "raf1")
    IN  [k \in 1..Len(firsts) |-> [firsts[k] EXCEPT !.kind = "raf2"]]

\* The step of the queue in an animation frame.  No other action takes this
\* step: a run of the effect keeps the second callbacks that are pending.
FrameTaken == rafQueue # <<>> /\ rafQueue' = QueueAfterFrame(rafQueue)

\* The browser runs the requested animation-frame callbacks: a frame with
\* pending callbacks is not put off forever.
SpecEffectFair == SpecEffect /\ WF_rafQueue(FrameTaken)

-----------------------------------------------------------------------------
(* The Index page around SongDisplayPaged: its transposition, font size and *)
(* page state and the controls that change them.  The page's transposition *)
(* state is the component's prop fxTransposition (half tones), its fontSize *)
(* state the prop fxFontSize.  A layout pass is taken as one step here: the *)
(* two animation frames of the pass for the current inputs.                 *)

\* options of TranspositionControl: -2.5 .. 3 in 0.5 steps, in half tones
TransposeOptions == [k \in 1..12 |-> k - 6]

\* options.indexOf(value), 0-based, -1 when absent
OptionIndexOf(value) ==
    IF \E k \in 1..Len(TransposeOptions) : TransposeOptions[k] = value
    THEN (CHOOSE k \in 1..Len(TransposeOptions) : TransposeOptions[k] = value) - 1
    ELSE -1

\* setTransposition(v): the prop of SongDisplayPaged changes
SetTransposition(v) ==
    /\ fxTransposition' = v
    /\ UNCHANGED <<fxLines, fxFontSize, viewport, columnCount, measureKey, pages,
                   rafQueue, lastCommit>>
    /\ UNCHANGED ixVars
    /\ UNCHANGED <<pgVars, sgVars, tkVars, trVars, coVars, svVars, asVars, bwVars>>

\* The arrow buttons of the Index header rows: transposition + 1, - 1 (tones).
TransposeUpButton ==
    /\ fxTransposition + 2 <= MaxTransposition
    /\ SetTransposition(fxTransposition + 2)

TransposeDownButton ==
    /\ fxTransposition - 2 >= -MaxTransposition
    /\ SetTransposition(fxTransposition - 2)

\* TranspositionControl of the floating toolbar
handleUp ==
    LET currentIndex == OptionIndexOf(fxTransposition)
    IN  IF currentIndex < Len(TransposeOptions) - 1
        THEN SetTransposition(TransposeOptions[currentIndex + 2])
        ELSE SetTransposition(TransposeOptions[1])

handleDown ==
    LET currentIndex == OptionIndexOf(fxTransposition)
    IN  IF currentIndex > 0
        THEN SetTransposition(TransposeOptions[currentIndex])
        ELSE SetTransposition(TransposeOptions[Len(TransposeOptions)])

SelectTransposition ==
    \E k \in 1..Len(TransposeOptions) :
        /\ TransposeOptions[k] # fxTransposition
        /\ SetTransposition(TransposeOptions[k])

handleResetToOriginal ==
    /\ fxTransposition # originalTransposition
    /\ SetTransposition(originalTransposition)

goToNextPage ==
    /\ currentPage < ixTotalPages - 1
    /\ currentPage' = currentPage + 1
    /\ UNCHANGED <<originalTransposition, ixTotalPages>>
    /\ UNCHANGED <<pgVars, sgVars, tkVars, trVars, fxVars, coVars, svVars, asVars, bwVars>>

goToPrevPage ==
    /\ currentPage > 0
    /\ currentPage' = currentPage - 1
    /\ UNCHANGED <<originalTransposition, ixTotalPages>>
    /\ UNCHANGED <<pgVars, sgVars, tkVars, trVars, fxVars, coVars, svVars, asVars, bwVars>>

SetFontSize ==
    /\ \E f \in FontSizes \ {fxFontSize} : fxFontSize' = f
    /\ UNCHANGED <<fxLines, fxTransposition, viewport, columnCount, measureKey, pages,
                   rafQueue, lastCommit>>
    /\ UNCHANGED ixVars
    /\ UNCHANGED <<pgVars, sgVars, tkVars, trVars, coVars, svVars, asVars, bwVars>>

\* The window is resized or rotated: the ResizeObserver sets the column count.
ResizeWindow ==
    /\ \E vp \in Viewports \ {viewport} :
         /\ viewport' = vp
         /\ columnCount' = getColumnCount(vp.width, vp.height)
    /\ UNCHANGED <<fxLines, fxTransposition, fxFontSize, measureKey, pages, rafQueue,
                   lastCommit>>
    /\ UNCHANGED ixVars
    /\ UNCHANGED <<pgVars, sgVars, tkVars, trVars, coVars, svVars, asVars, bwVars>>

\* The layout pass for the current inputs commits: setPages(newPages), and the
\* effect on pages.length reports Math.max(1, pages.length) to setTotalPages.
LayoutPass ==
    LET layout == Paginate(fxLines, MeasuredHeights10,
                           ContainerHeight10(viewport, fxFontSize), columnCount)
    IN  /\ pages # layout \/ ixTotalPages # totalPages(layout)
        /\ pages' = layout
        /\ ixTotalPages' = totalPages(layout)
        /\ UNCHANGED <<fxLines, fxTransposition, fxFontSize, viewport, columnCount,
                       measureKey, rafQueue, lastCommit>>
        /\ UNCHANGED <<originalTransposition, currentPage>>
        /\ UNCHANGED <<pgVars, sgVars, tkVars, trVars, coVars, svVars, asVars, bwVars>>

\* After handleSubmit has loaded a song whose transposition is 0.
IxInit ==
    /\ fxLines \in Docs
    /\ fxTransposition = 0
    /\ fxFontSize = 16
    /\ viewport \in Viewports
    /\ columnCount = getColumnCount(viewport.width, viewport.height)
    /\ measureKey = 0
    /\ pages = <<>>
    /\ rafQueue = <<>>
    /\ lastCommit = NoCommit
    /\ originalTransposition = 0
    /\ currentPage = 0
    /\ ixTotalPages = 1
    /\ PgIdle /\ SgIdle /\ TkIdle /\ TrIdle /\ CoIdle /\ SvIdle /\ AsIdle /\ BwIdle

IxNext ==
    \/ TransposeUpButton
    \/ TransposeDownButton
    \/ handleUp
    \/ handleDown
    \/ SelectTransposition
    \/ handleResetToOriginal
    \/ goToNextPage
    \/ goToPrevPage
    \/ SetFontSize
    \/ ResizeWindow
    \/ LayoutPass

SpecIndex == IxInit /\ [][IxNext]_vars

-----------------------------------------------------------------------------
(* Specification of the transposer on chords whose root and bass carry an   *)
(* accidental, written with the ASCII or the Unicode sign                    *)

AccidentalSigns == {"#", "b", USharp, UFlat}
SignedSuffixes == SeqsUpTo({"m", "7"}, MaxChord - 2)
SignedBasses == { <<>>, <<"/", "E">>, <<"/", "B", UFlat>> }

TrSignedInputs ==
    /\ trChord \in { <<r, a>> \o s \o b :
                        r \in UpperRoots, a \in AccidentalSigns,
                        s \in SignedSuffixes, b \in SignedBasses }
    /\ trDelta \in -MaxSemitones..MaxSemitones
    /\ transposed = <<>> /\ restored = <<>> /\ unrounded = <<>>
    /\ trPc = "input"

TrSignedInit == TrSignedInputs /\ PgIdle /\ SgIdle /\ TkIdle /\ FxIdle /\ CoIdle /\ UiIdle

SpecTransposeSigned == TrSignedInit /\ [][TrNext]_vars

-----------------------------------------------------------------------------
(* Specification of the two snapping versions of the segmenter (snap and    *)
(* merge; snap without merge) on the same line                               *)

SgSnapInputs ==
    /\ \E s \in LyricsInputs : sgLyrics = LyricsOf(s)
    /\ \E k \in 0..MaxChords :
         \E ats \in [1..k -> -1..(Len(sgLyrics) + 1)] :
             sgChords = [i \in 1..k |-> [chord |-> LabelAt(i), at |-> ats[i], id |-> i]]
    /\ sgSemitones = 0
    /\ segments = <<>>
    /\ snapSegments = <<>>
    /\ sgPc = "input"

SgSnapInit == SgSnapInputs /\ PgIdle /\ TkIdle /\ TrIdle /\ FxIdle /\ CoIdle /\ IxIdle /\ AsIdle /\ BwIdle

RenderLineSnapping ==
    /\ sgPc = "input"
    /\ segments' = Segments(sgLyrics, sgChords, sgSemitones)
    /\ snapSegments' = SnapSegments(sgLyrics, sgChords, sgSemitones)
    /\ sgPc' = "done"
    /\ UNCHANGED <<sgLyrics, sgChords, sgSemitones>>
    /\ UNCHANGED <<pgVars, tkVars, trVars, fxVars, coVars, ixVars, asVars, bwVars>>

SgSnapNext == RenderLineSnapping

SpecSegmentSnap == SgSnapInit /\ [][SgSnapNext]_vars

-----------------------------------------------------------------------------
(* Auto font scaling of SongDisplayPaged and its feedback into the layout:   *)
(* the layout effect measures at fontSize * fontScale and depends on         *)
(* fontScale, the auto-scale effect depends on pages.length.  fontScale is   *)
(* in thousandths, widths are in thousandths of a pixel.  A layout pass is   *)
(* taken as one step: the two animation frames of the pass for the current   *)
(* inputs.                                                                   *)

\* The widest unbreakable run of a lyrics row of the document, in characters:
\* none, six characters in the first song, ten in the second.
WidestRun(doc) == IF doc = <<>> THEN 0 ELSE IF doc[1] = 1 THEN 6 ELSE 10

\* columns[0].clientWidth, px
ColumnWidth(vp, cols) == vp.width \div cols

\* row.scrollWidth of the widest row at the displayed font size
\* fontSize * fontScale, a character being half an em wide
RowScrollWidth(doc, fontSize, scale) == (WidestRun(doc) * fontSize * scale) \div 2

\* The scale the timeout callback hands to setFontScale.
ComputedFontScale(doc, fontSize, scale, vp, cols) ==
    LET columnWidth == ColumnWidth(vp, cols) * 1000
        scrollWidth == RowScrollWidth(doc, fontSize, scale)
        maxOverflow == IF scrollWidth > columnWidth THEN scrollWidth - columnWidth ELSE 0
    IN  IF maxOverflow > 0
        THEN Max(750, (980 * columnWidth) \div (columnWidth + maxOverflow))
        ELSE 1000

\* Math.ceil(node.offsetHeight) of the measuring node of a line, in tenths of a
\* pixel, with measure.style.fontSize = fontSize * fontScale and line height 1.8
ScaledNodeHeight10(line, fontSize, scale) ==
    LET rows == IF line % 2 = 1 THEN 1 ELSE 2
    IN  10 * CeilDiv(rows * fontSize * 18 * scale, 10000)

ScaledHeights10(doc, fontSize, scale) ==
    [i \in 1..Len(doc) |-> ScaledNodeHeight10(doc[i], fontSize, scale)]

ScaledLayout(doc, fontSize, scale, vp, cols) ==
    Paginate(doc, ScaledHeights10(doc, fontSize, scale), ContainerHeight10(vp, fontSize), cols)

AsInit ==
    /\ fxLines \in Docs
    /\ fxTransposition = 0
    /\ fxFontSize = 16
    /\ viewport \in Viewports
    /\ columnCount = getColumnCount(viewport.width, viewport.height)
    /\ measureKey = 0
    /\ pages = <<>>
    /\ rafQueue = <<>>
    /\ lastCommit = NoCommit
    /\ fontScale = 1000
    /\ scaleTimer = TRUE
    /\ layoutPending = TRUE
    /\ PgIdle /\ SgIdle /\ TkIdle /\ TrIdle /\ CoIdle /\ IxIdle /\ SvIdle /\ BwIdle

\* The parent changes the font size: both effects run again.
AsChangeFontSize ==
    /\ \E f \in FontSizes \ {fxFontSize} : fxFontSize' = f
    /\ scaleTimer' = TRUE
    /\ layoutPending' = TRUE
    /\ UNCHANGED <<fxLines, fxTransposition, viewport, columnCount, measureKey, pages,
                   rafQueue, lastCommit, fontScale>>
    /\ UNCHANGED <<pgVars, sgVars, tkVars, trVars, coVars, ixVars, svVars, bwVars>>

\* The ResizeObserver callback: the layout effect runs again.
AsResize ==
    /\ \E vp \in Viewports \ {viewport} :
         /\ viewport' = vp
         /\ columnCount' = getColumnCount(vp.width, vp.height)
    /\ layoutPending' = TRUE
    /\ UNCHANGED <<fxLines, fxTransposition, fxFontSize, measureKey, pages, rafQueue,
                   lastCommit, fontScale, scaleTimer>>
    /\ UNCHANGED <<pgVars, sgVars, tkVars, trVars, coVars, ixVars, svVars, bwVars>>

\* The layout pass commits: setPages(newPages); a change of pages.length runs
\* the auto-scale effect, which sets its timeout.
AsLayoutPass ==
    /\ layoutPending
    /\ pages' = ScaledLayout(fxLines, fxFontSize, fontScale, viewport, columnCount)
    /\ layoutPending' = FALSE
    /\ scaleTimer' = (scaleTimer \/ Len(pages') # Len(pages))
    /\ UNCHANGED <<fxLines, fxTransposition, fxFontSize, viewport, columnCount,
                   measureKey, rafQueue, lastCommit, fontScale>>
    /\ UNCHANGED <<pgVars, sgVars, tkVars, trVars, coVars, ixVars, svVars, bwVars>>

\* The timeout of the auto-scale effect: setFontScale; a changed fontScale runs
\* the layout effect again.
AutoScaleTimer ==
    /\ scaleTimer
    /\ fontScale' = ComputedFontScale(fxLines, fxFontSize, fontScale, viewport,
                                      columnCount)
    /\ scaleTimer' = FALSE
    /\ layoutPending' = (layoutPending \/ fontScale' # fontScale)
    /\ UNCHANGED <<fxLines, fxTransposition, fxFontSize, viewport, columnCount,
                   measureKey, pages, rafQueue, lastCommit>>
    /\ UNCHANGED <<pgVars, sgVars, tkVars, trVars, coVars, ixVars, svVars, bwVars>>

AsNext ==
    \/ AsChangeFontSize
    \/ AsResize
    \/ AsLayoutPass
    \/ AutoScaleTimer

SpecAutoScale == AsInit /\ [][AsNext]_vars

\* The steps of the two flags in a layout pass and in the timeout callback; no
\* other action takes them.
LayoutTaken == layoutPending /\ layoutPending' = FALSE
TimerFired == scaleTimer /\ scaleTimer' = FALSE

\* The browser runs requested animation frames and due timeouts.
SpecAutoScaleFair ==
    SpecAutoScale /\ WF_layoutPending(LayoutTaken) /\ WF_scaleTimer(TimerFired)

-----------------------------------------------------------------------------
(* Specification of the segmenter with the borrow passes                     *)

MaxBorrowLyrics == 6
MaxBorrowChords == 2

\* Lines of letters and spaces; the first character can be a no-break space.
BorrowLyricsInputs == UNION {[1..n -> {" ", "x"}] : n \in 0..MaxBorrowLyrics}

SgBorrowInputs ==
    /\ \E s \in BorrowLyricsInputs : \E nbsp \in BOOLEAN :
         sgLyrics = [p \in 1..Len(s) |->
                        IF p = 1 /\ nbsp THEN NBSP ELSE LyricsOf(s)[p]]
    /\ \E k \in 0..MaxBorrowChords :
         \E ats \in [1..k -> 0..Len(sgLyrics)] :
             sgChords = [i \in 1..k |-> [chord |-> LabelAt(i), at |-> ats[i], id |-> i]]
    /\ sgSemitones = 2
    /\ segments = <<>>
    /\ sgPc = "input"
    /\ BwIdle

SgBorrowInit ==
    SgBorrowInputs /\ PgIdle /\ TkIdle /\ TrIdle /\ FxIdle /\ CoIdle /\ IxIdle /\ SvIdle /\ AsIdle

RenderLineBorrowing ==
    /\ sgPc = "input"
    /\ plainSegments' = PlainSegments(sgLyrics, sgChords, sgSemitones)
    /\ borrowedFromNext' = BorrowFromNext(plainSegments', 1)
    /\ borrowedSegments' = BorrowedSegments(sgLyrics, sgChords, sgSemitones)
    /\ sgPc' = "done"
    /\ UNCHANGED <<sgLyrics, sgChords, sgSemitones, segments>>
    /\ UNCHANGED <<pgVars, tkVars, trVars, fxVars, coVars, ixVars, svVars, asVars>>

SgBorrowNext == RenderLineBorrowing

SpecSegmentBorrow == SgBorrowInit /\ [][SgBorrowNext]_vars

-----------------------------------------------------------------------------
(* Layout properties                                                        *)

\* Height of the lines of one column of the produced layout.
ColumnHeight(col) ==
    SumSeq([k \in 1..Len(col) |-> HeightAt(pgHeights, LineIdxByRef(pgLines, col[k]))])

AllFit == \A i \in 1..Len(pgLines) : HeightAt(pgHeights, i) <= pgContainerHeight

\* C1: with every line height <= containerHeight, every column of the layout
\* made by the greedy pass and the balance pass has summed height <= containerHeight.
C1_NoColumnOverflow ==
    (pgPc = "done" /\ AllFit) =>
        \A p \in 1..Len(newPages) : \A c \in 1..Len(newPages[p]) :
            ColumnHeight(newPages[p][c]) <= pgContainerHeight

\* C2: flattening the pages in (page, column, index) order gives back the input
\* line sequence, also when heights are zero or missing.
C2_FlattenIsInput ==
    pgPc = "done" =>
        Flatten([p \in 1..Len(newPages) |-> Flatten(newPages[p])]) = pgLines

C2_Witness ==
    /\ pgPc = "done"
    /\ Len(pgLines) = 4
    /\ Len(pgHeights) \in 1..(Len(pgLines) - 1)
    /\ \E i \in 1..Len(pgHeights) : pgHeights[i] = 0
    /\ Len(newPages) > 1

\* C11: an empty document laid out for c columns gives exactly one page of c
\* empty columns, and the reported total page count is 1.
C11_EmptyDocumentPage ==
    (pgPc = "done" /\ pgLines = <<>>) =>
        /\ newPages = << [k \in 1..pgCols |-> <<>>] >>
        /\ totalPages(newPages) = 1

\* C13: a line whose measured height exceeds containerHeight is kept, and in
\* the final layout it is the only line of its column (stated for documents
\* whose lines all have a measured, positive height).
C13_TallLineAlone ==
    (/\ pgPc = "done"
     /\ Len(pgHeights) = Len(pgLines)
     /\ \A i \in 1..Len(pgHeights) : pgHeights[i] > 0) =>
        \A i \in 1..Len(pgHeights) :
            pgHeights[i] > pgContainerHeight =>
                \E p \in 1..Len(newPages) : \E c \in 1..Len(newPages[p]) :
                    newPages[p][c] = <<pgLines[i]>>

\* An order-preserving partition of the lines into columns is given by its
\* cuts: cut c separates line c from line c + 1. It is feasible when no run of
\* lines without a cut in it is higher than the container.
FeasibleCuts(cuts) ==
    \A a \in 1..Len(pgLines) : \A b \in a..Len(pgLines) :
        (\A c \in a..(b - 1) : c \notin cuts) =>
            SumSeq([k \in 1..(b - a + 1) |-> HeightAt(pgHeights, a + k - 1)])
                <= pgContainerHeight

ColumnsOfCuts(cuts) == IF pgLines = <<>> THEN 0 ELSE Cardinality(cuts) + 1

\* The lines of the greedy columns that page p (1-based) is made from.
GreedyLinesOfPage(p) ==
    LET first == (p - 1) * pgCols
        count == Max(0, Min(pgCols, Len(greedyColumns) - first))
    IN  Flatten([k \in 1..count |-> greedyColumns[first + k].lines])

\* C20: with every line height <= containerHeight, no order-preserving
\* partition of the lines into columns of summed height <= containerHeight has
\* fewer columns than the greedy pass makes; the final layout has exactly
\* max(1, ceil(G / columnCount)) pages, G being the number of greedy columns,
\* and each page holds exactly the lines of its columnCount consecutive greedy
\* columns.
C20_GreedyIsMinimal ==
    pgPc = "done" =>
        LET G == Len(greedyColumns)
        IN  /\ AllFit =>
                \A cuts \in SUBSET (1..(Len(pgLines) - 1)) :
                    FeasibleCuts(cuts) => ColumnsOfCuts(cuts) >= G
            /\ Len(newPages) = Max(1, CeilDiv(G, pgCols))
            /\ totalPages(newPages) = Max(1, CeilDiv(G, pgCols))
            /\ \A p \in 1..Len(newPages) : Flatten(newPages[p]) = GreedyLinesOfPage(p)

C20_Witness ==
    /\ pgPc = "done"
    /\ AllFit
    /\ Len(pgLines) = 4
    /\ \A i \in 1..4 : HeightAt(pgHeights, i) > 0
    /\ pgCols = 2
    /\ Len(greedyColumns) = 3
    /\ Len(newPages) = 2
    /\ newPages[1] # <<greedyColumns[1].lines, greedyColumns[2].lines>>
    /\ ~FeasibleCuts({2})

-----------------------------------------------------------------------------
(* Layout effect properties                                                 *)

\* C3: every setPages call carries a layout computed from the inputs (lines,
\* transposition, fontSize, columnCount) that are current at the moment of the
\* call: a pass whose inputs changed while it was in flight never commits.
C3_NoStaleCommit ==
    lastCommit.made => lastCommit.from = lastCommit.current

\* The layout of what is shown now: the pass of the second callback applied
\* to the current props, state and container.
CurrentLayout ==
    Paginate(fxLines, MeasuredHeights10, ContainerHeight10(viewport, fxFontSize), columnCount)

\* A pass for the current inputs is pending.
PassPending ==
    \E k \in 1..Len(rafQueue) :
        /\ ClosureInputs(rafQueue[k]) = CurrentInputs
        /\ rafQueue[k].containerHeight = ContainerHeight10(viewport, fxFontSize)

\* A step that changes none of the inputs of the layout.
InputsUnchanged ==
    UNCHANGED <<fxLines, fxTransposition, fxFontSize, viewport, columnCount, measureKey>>

\* C23: at every moment a layout pass for the current inputs is pending or the
\* pages state is the layout of the current inputs; and if from some moment on
\* none of the inputs changes any more, the pages state
\* eventually is, and stays, the layout computed from the latest inputs.
C23_LatestLayoutCommits ==
    /\ [](PassPending \/ pages = CurrentLayout)
    /\ <>[][InputsUnchanged]_vars => <>[](rafQueue = <<>> /\ pages = CurrentLayout)

\* C12: a layout committed for a document of at least one line has exactly
\* columnCount columns on every page, the last page included.
C12_EveryPageFullGrid ==
    (lastCommit.made /\ Len(lastCommit.from.lines) >= 1) =>
        \A p \in 1..Len(pages) : Len(pages[p]) = lastCommit.from.cols

-----------------------------------------------------------------------------
(* Segmenter properties                                                     *)

\* The text of a segment, the placeholder counted as empty.
SegText(seg) == IF seg.text = <<NBSP>> THEN <<>> ELSE seg.text

Reconstructed == Flatten([k \in 1..Len(segments) |-> SegText(segments[k])])

ChordSegments == SelectSeq(segments, LAMBDA seg : seg.chordTokens # Null)

\* C4: the segment texts, concatenated in order with the placeholder counted as
\* empty, give back lyrics up to whitespace removed at the very end of the line.
C4_Coverage ==
    sgPc = "done" =>
        LET text == Reconstructed
        IN  /\ Len(text) <= Len(sgLyrics)
            /\ text = SubSeq(sgLyrics, 1, Len(text))
            /\ \A p \in (Len(text) + 1)..Len(sgLyrics) : sgLyrics[p] \in Whitespace

C4_Witness ==
    /\ sgPc = "done"
    /\ Len(segments) >= 3
    /\ \E i \in 1..(Len(sgChords) - 1) : sgChords[i].at > sgChords[i + 1].at
    /\ \E k \in 1..Len(segments) : segments[k].text = <<NBSP>>
    /\ Reconstructed # sgLyrics

\* C5: for non-empty lyrics the chord labels carried by all segments are as
\* many as the input ChordPosition entries.
C5_ChordCountConserved ==
    (sgPc = "done" /\ sgLyrics # <<>>) =>
        SumSeq([k \in 1..Len(ChordSegments) |-> Len(ChordSegments[k].chordTokens)])
            = Len(sgChords)

\* The chords of all chord-bearing segments, in segment order.
EmittedChords == Flatten([k \in 1..Len(ChordSegments) |-> ChordSegments[k].group])

\* The tokens each input label is to show for each semitone count.
TransposedInputLabels ==
    [label \in {InputLabels[k] : k \in 1..Len(InputLabels)}, n \in SegSemitones |->
        transposeChordLabel(label, n)]

\* C9: the chords are emitted in ascending-at order with ties in input order,
\* each exactly once; the chords that snap to one offset make exactly one
\* segment, which carries the labels of all of them in that order; no two
\* chord-bearing segments start at the same offset.
C9_MergedGroups ==
    (sgPc = "done" /\ sgLyrics # <<>>) =>
        LET chordSegs == ChordSegments
            emitted == EmittedChords
        IN  /\ Len(emitted) = Len(sgChords)
            /\ {emitted[k] : k \in 1..Len(emitted)} = {sgChords[k] : k \in 1..Len(sgChords)}
            /\ \A k \in 1..(Len(emitted) - 1) :
                   \/ emitted[k].at < emitted[k + 1].at
                   \/ /\ emitted[k].at = emitted[k + 1].at
                      /\ emitted[k].id < emitted[k + 1].id
            /\ \A k \in 1..Len(chordSegs) :
                   LET seg == chordSegs[k]
                       lastEnd == IF k = 1 THEN 0 ELSE chordSegs[k - 1].to
                       labels == Flatten([c \in 1..Len(seg.group) |->
                                     TransposedInputLabels[seg.group[c].chord, sgSemitones]])
                   IN  /\ seg.group # <<>>
                       /\ \A c \in 1..Len(seg.group) :
                              computeSnappedAt(sgLyrics, lastEnd, seg.group[c].at) = seg.from
                       /\ seg.chordTokens = IF labels # <<>> THEN labels ELSE << <<NBSP>> >>
            /\ \A k \in 1..(Len(chordSegs) - 1) : chordSegs[k].from < chordSegs[k + 1].from

C9_Witness ==
    /\ sgPc = "done"
    /\ Len(ChordSegments) = 2
    /\ \E k \in 1..2 :
         /\ Len(ChordSegments[k].group) = 2
         /\ ChordSegments[k].group[1].at = ChordSegments[k].group[2].at
         /\ ChordSegments[k].group[1].id < ChordSegments[k].group[2].id
    /\ \E i \in 1..(Len(sgChords) - 1) : sgChords[i].at > sgChords[i + 1].at

\* The first offset of the word that holds offset p: just after the last space
\* before p, or 0.
WordStartOf(p) ==
    LET spaces == {q \in 0..(p - 1) : sgLyrics[q + 1] = " "}
    IN  IF spaces = {} THEN 0 ELSE 1 + CHOOSE q \in spaces : \A r \in spaces : r <= q

ChordsInDifferentWords ==
    /\ \A i \in 1..Len(sgChords) :
           /\ sgChords[i].at \in 0..(Len(sgLyrics) - 1)
           /\ sgLyrics[sgChords[i].at + 1] # " "
    /\ \A i, j \in 1..Len(sgChords) :
           i # j => WordStartOf(sgChords[i].at) # WordStartOf(sgChords[j].at)

\* C10: when every chord's offset lies in a different word, each chord-bearing
\* segment starts at the first character of the word that holds its chord's
\* offset, and no boundary between two consecutive segments falls between two
\* non-space characters.
C10_SegmentsStartAtWordStart ==
    (sgPc = "done" /\ sgChords # <<>> /\ ChordsInDifferentWords) =>
        /\ \A k \in 1..Len(ChordSegments) :
               ChordSegments[k].from = WordStartOf(ChordSegments[k].group[1].at)
        /\ \A k \in 2..Len(segments) :
               LET b == segments[k].from
               IN  ~(b \in 1..(Len(sgLyrics) - 1)
                     /\ sgLyrics[b] # " " /\ sgLyrics[b + 1] # " ")

\* The chords with every offset replaced by min(max(0, at), length(lyrics)).
ClampedChords ==
    [i \in 1..Len(sgChords) |->
        [sgChords[i] EXCEPT !.at = Min(Max(0, sgChords[i].at), Len(sgLyrics))]]

\* C18 as stated: the segmenter uses min(max(0, at), length(lyrics)) in place
\* of every offset, so the segments are those of the clamped offsets, labels
\* included.
C18_SameAsClamped ==
    sgPc = "done" =>
        LET clamped == Segments(sgLyrics, ClampedChords, sgSemitones)
        IN  /\ Len(segments) = Len(clamped)
            /\ \A k \in 1..Len(segments) :
                   /\ segments[k].text = clamped[k].text
                   /\ segments[k].chordTokens = clamped[k].chordTokens
                   /\ segments[k].from = clamped[k].from
                   /\ segments[k].to = clamped[k].to

\* The end of the previous segment as the loop had it when it placed segment k:
\* 0 at the start, and the start of a text-only segment pushed just before.
LastEndAt(k) ==
    IF k = 1 THEN 0
    ELSE IF segments[k - 1].group = <<>> THEN segments[k - 1].from
    ELSE segments[k - 1].to

ClampedAt(c) == Min(Max(0, c.at), Len(sgLyrics))

\* C18, amended: whatever the offsets, negative or beyond the end of the
\* lyrics, every chord is placed by its offset clamped into [0, length(lyrics)]:
\* a segment that carries chords starts where the clamped offset of each of its
\* chords snaps to, and ends at the clamped offset of the first chord of the
\* next segment (not before its own start), or at the end of the lyrics when no
\* chord follows. Every boundary lies in [0, length(lyrics)], the first segment
\* starts at 0, each segment starts where the previous one ended, and on
\* non-empty lyrics every chord is in a segment.
C18_OffsetsClamped ==
    sgPc = "done" =>
        /\ \A k \in 1..Len(segments) :
               /\ 0 <= segments[k].from
               /\ segments[k].from <= segments[k].to
               /\ segments[k].to <= Len(sgLyrics)
               /\ segments[k].group # <<>> =>
                      /\ \A m \in 1..Len(segments[k].group) :
                             computeSnappedAt(sgLyrics, LastEndAt(k),
                                              ClampedAt(segments[k].group[m]))
                                 = segments[k].from
                      /\ segments[k].to =
                             IF k < Len(segments) /\ segments[k + 1].group # <<>>
                             THEN Max(segments[k].from,
                                      ClampedAt(segments[k + 1].group[1]))
                             ELSE Len(sgLyrics)
        /\ segments # <<>> => segments[1].from = 0
        /\ \A k \in 1..(Len(segments) - 1) : segments[k + 1].from = segments[k].to
        /\ sgLyrics # <<>> =>
               \A i \in 1..Len(sgChords) :
                   \E k \in 1..Len(segments) : \E m \in 1..Len(segments[k].group) :
                       segments[k].group[m] = sgChords[i]

C18_Witness ==
    /\ sgPc = "done"
    /\ Len(sgLyrics) >= 3
    /\ \E i \in 1..Len(sgChords) : sgChords[i].at < -1
    /\ \E i \in 1..Len(sgChords) : sgChords[i].at > Len(sgLyrics) + 1
    /\ Len(segments) = 2
    /\ segments[1].group # <<>> /\ segments[2].group # <<>>
    /\ segments[2].from = Len(sgLyrics)

-----------------------------------------------------------------------------
(* Chords-only line properties                                              *)

\* C15: a chords-only line shows one display unit per source chord, in the
\* order of the chords array, and the unit of a chord is the list of the
\* transposed tokens of its label (stated for a transposed line whose labels
\* all hold at least one token).
C15_ChordsOnlyUnits ==
    (/\ coPc = "done"
     /\ coSemitones # 0
     /\ \A i \in 1..Len(coChords) : normalizeChordTokens(coChords[i]) # <<>>) =>
        /\ Len(coUnits) = Len(coChords)
        /\ \A i \in 1..Len(coChords) :
               coUnits[i] = transposeChordLabel(coChords[i], coSemitones)

-----------------------------------------------------------------------------
(* Tokenizer properties                                                     *)

\* C14: a label that is non-empty after trimming never gives an empty token
\* list, whichever tokenizer of the repository reads it; where the scan
\* recognises no token the result is the whitespace-split of the trimmed label.
C14_NoLabelLost ==
    (tkPc # "input" /\ Trim(tkLabel) # <<>>) =>
        /\ scanTokens # <<>>
        /\ ScanLoop(Trim(tkLabel), 1, <<>>) = <<>>
               => scanTokens = SplitWhitespace(Trim(tkLabel), <<>>, <<>>)
        /\ normTokens # <<>>
        /\ gluedTokens # <<>>

\* The root letters A-G of a string, in order, each with the mark "it is not
\* the first character and the character before it is '/'".
RootMarks(str) ==
    LET at == SelectSeq([p \in 1..Len(str) |-> p], LAMBDA p : str[p] \in UpperRoots)
    IN  [k \in 1..Len(at) |->
            <<str[at[k]], at[k] > 1 /\ str[at[k] - 1] = "/">>]

\* The root letters A-G of a token list, in order, each with the mark "it is
\* not the first character of its token".
TokenMarks(tokens) ==
    Flatten([t \in 1..Len(tokens) |->
        LET at == SelectSeq([p \in 1..Len(tokens[t]) |-> p],
                            LAMBDA p : tokens[t][p] \in UpperRoots)
        IN  [k \in 1..Len(at) |-> <<tokens[t][at[k]], at[k] > 1>>]])

\* Inside a token a root letter comes only directly after '/'.
BassAfterSlash(tokens) ==
    \A t \in 1..Len(tokens) : \A p \in 2..Len(tokens[t]) :
        tokens[t][p] \in UpperRoots => tokens[t][p - 1] = "/"

\* C21: in the output of both tokenizers every uppercase A-G of the label that
\* is not directly preceded by '/' is the first character of a token, and
\* every uppercase A-G directly preceded by '/' is inside a token, directly
\* after its '/'; a glued label of two chords gives two tokens and a slash
\* chord one.
C21_RootStartsToken ==
    tkPc # "input" =>
        /\ TokenMarks(gluedTokens) = RootMarks(tkLabel)
        /\ BassAfterSlash(gluedTokens)
        /\ TokenMarks(normTokens) = RootMarks(tkLabel)
        /\ BassAfterSlash(normTokens)
        /\ tkLabel = <<"C", "7", "A", "m">> =>
               /\ gluedTokens = << <<"C", "7">>, <<"A", "m">> >>
               /\ normTokens = gluedTokens
        /\ tkLabel = <<"C", "/", "G">> =>
               /\ gluedTokens = << <<"C", "/", "G">> >>
               /\ normTokens = gluedTokens

C21_Witness ==
    /\ tkPc = "once"
    /\ tkLabel = <<"C", "/", "G", "A">>
    /\ gluedTokens = << <<"C", "/", "G">>, <<"A">> >>
    /\ normTokens = gluedTokens

\* The parts of a label of the form chord, whitespace, modifier: what stands
\* before the first whitespace, and what stands after the whitespace run.
FirstWhitespace(label) ==
    LET at == {p \in 1..Len(label) : label[p] \in Whitespace}
    IN  IF at = {} THEN 0 ELSE CHOOSE p \in at : \A q \in at : p <= q

ChordPart(label) == SubSeq(label, 1, FirstWhitespace(label) - 1)

ModifierPart(label) == SubSeq(label, RunEnd(label, FirstWhitespace(label)), Len(label))

IsModifier(m) ==
    /\ Len(m) >= 2
    /\ m[1] \in Accidentals
    /\ \A k \in 2..Len(m) : m[k] \in Digits

\* A chord of its own: it starts with a root letter and the tokenizer reads it
\* as one token.
IsSingleChord(c) ==
    /\ c # <<>>
    /\ c[1] \in UpperRoots
    /\ tokenizeGluedChords(c) = <<c>>

\* The letters 'b' of a string, in order, each with the mark "between two digits".
FlatMarks(str) ==
    LET at == SelectSeq([p \in 1..Len(str) |-> p], LAMBDA p : str[p] = "b")
    IN  [k \in 1..Len(at) |->
            /\ at[k] > 1 /\ str[at[k] - 1] \in Digits
            /\ at[k] < Len(str) /\ str[at[k] + 1] \in Digits]

\* The letters 'b' of a token list, in order, each with the mark "first
\* character of its token".
FlatStarts(tokens) ==
    Flatten([t \in 1..Len(tokens) |->
        LET at == SelectSeq([p \in 1..Len(tokens[t]) |-> p],
                            LAMBDA p : tokens[t][p] = "b")
        IN  [k \in 1..Len(at) |-> at[k] = 1]])

\* C22: a label made of a chord, whitespace and a modifier (an accidental and
\* digits) gives the one token that the label without the whitespace gives,
\* which is the chord with the modifier attached; and a 'b' that stands
\* between two digits is never the first character of a token.
C22_ModifierStaysAttached ==
    tkPc # "input" =>
        /\ (/\ FirstWhitespace(tkLabel) > 0
            /\ IsSingleChord(ChordPart(tkLabel))
            /\ IsModifier(ModifierPart(tkLabel))) =>
               /\ gluedTokens = <<ChordPart(tkLabel) \o ModifierPart(tkLabel)>>
               /\ gluedTokens = tokenizeGluedChords(ChordPart(tkLabel) \o ModifierPart(tkLabel))
        /\ Len(FlatStarts(gluedTokens)) = Len(FlatMarks(tkLabel))
        /\ \A k \in 1..Len(FlatMarks(tkLabel)) :
               FlatMarks(tkLabel)[k] => ~FlatStarts(gluedTokens)[k]

C22_Witness ==
    /\ tkPc = "once"
    /\ tkLabel = <<"C", "m", "7", " ", " ", "b", "1", "3">>
    /\ gluedTokens = << <<"C", "m", "7", "b", "1", "3">> >>
    /\ FlatMarks(<<"C", "m", "7", "b", "1", "3">>) = <<TRUE>>

\* C6: tokenizing the space-joined output of the tokenizer (cleanup pass
\* included) gives the token list of the first pass.
C6_TokenizerIdempotent ==
    tkPc = "twice" => gluedRetokens = gluedTokens

-----------------------------------------------------------------------------
(* Transposer properties                                                    *)

IsFlatSpelled(note) == \E k \in 1..Len(note) : note[k] = "b"

\* A parseable chord whose root and bass are spelled natural or sharp.
CanonicalSpelling(c) ==
    LET parsed == parseChord(c)
    IN  /\ parsed.ok
        /\ ~IsFlatSpelled(parsed.root)
        /\ parsed.hasBass => ~IsFlatSpelled(parsed.bass)

\* C16: transposing by zero semitones, or by a value that rounds to zero,
\* returns the input string unchanged, whether it parses as a chord or not.
C16_ZeroIsNoOp ==
    trPc = "done" =>
        /\ trDelta = 0 => transposed = trChord
        /\ \A q \in RoundsToZero : unrounded[q] = trChord

C16_Witness ==
    /\ trPc = "done"
    /\ trDelta = 0
    /\ trChord = <<"C", "b", "/">>
    /\ transposed = trChord
    /\ RoundsToZero = {-2, -1, 1}
    /\ unrounded[-2] = trChord

\* C17: a string that does not start with a root letter A-G is returned
\* unchanged for every semitone count; and when the part after the first '/'
\* of a chord is not a note, the result carries that part as it was.
C17_UnparseableUnchanged ==
    trPc = "done" =>
        /\ (trChord = <<>> \/ trChord[1] \notin UpperRoots) => transposed = trChord
        /\ LET parsed == parseChord(trChord)
           IN  (parsed.ok /\ parsed.hasBass /\ getNoteIndex(parsed.bass) = -1) =>
                   parseChord(transposed).bass = parsed.bass

C17_Witness ==
    /\ trPc = "done"
    /\ trChord = <<"C", "/", "m", "b">>
    /\ trDelta = 13
    /\ transposed = <<"C", "#", "/", "m", "b">>

\* C7: transposing any canonically spelled parseable chord (root and bass
\* natural or sharp) by n and then by -n gives the chord back, character for
\* character.
C7_RoundTrip ==
    (trPc = "done" /\ CanonicalSpelling(trChord)) => restored = trChord

\* A chord string: a root letter with an optional '#' or 'b', a suffix, and
\* possibly one '/' followed by a bass note of the same shape as a root.
IsNoteShaped(note) ==
    /\ Len(note) \in 1..2
    /\ note[1] \in UpperRoots
    /\ Len(note) = 2 => note[2] \in {"#", "b"}

IsChordString(c) ==
    LET parsed == parseChord(c)
        slashParts == SplitSlash(c, <<>>)
    IN  /\ parsed.ok
        /\ Len(slashParts) <= 2
        /\ parsed.hasBass => IsNoteShaped(parsed.bass)

\* C8: transposing any chord string (sharp- or flat-spelled, with or without a
\* bass part) by 12 semitones returns it unchanged, character for character.
C8_OctaveIsIdentity ==
    (trPc = "done" /\ trDelta = 12 /\ IsChordString(trChord)) => transposed = trChord

\* The pitch of a note-shaped name on the 12-tone scale, 0 = C .. 11 = B.
LetterPitch(letter) ==
    CASE letter = "C" -> 0 [] letter = "D" -> 2 [] letter = "E" -> 4
      [] letter = "F" -> 5 [] letter = "G" -> 7 [] letter = "A" -> 9
      [] OTHER -> 11

ChromaticIndex(note) ==
    LET accidental == IF Len(note) = 1 THEN 0 ELSE IF note[2] = "#" THEN 1 ELSE -1
    IN  (LetterPitch(note[1]) + accidental + 12) % 12

\* The name of a pitch: the sharp or natural name, or the flat name when a
\* flat is asked for and the pitch has an accidental.
SpelledAt(index, flat) ==
    LET sharp == CHROMATIC_SCALE[index + 1]
    IN  IF flat /\ Len(sharp) = 2 THEN <<CHROMATIC_SCALE[index + 2][1], "b">> ELSE sharp

ExpectedNote(note, n) ==
    SpelledAt((((ChromaticIndex(note) + n) % 12) + 12) % 12, Len(note) = 2 /\ note[2] = "b")

\* C19: for every chord string and every non-zero n, the result is the root
\* moved to chromatic index (index(root) + n) mod 12, spelled flat exactly when
\* the root was flat and the target pitch has an accidental, then the suffix
\* as it was, then, for a slash chord, '/' and the bass moved by the same rule.
C19_TransposedSpelling ==
    (trPc = "done" /\ trDelta # 0 /\ IsChordString(trChord)) =>
        LET parsed == parseChord(trChord)
        IN  transposed = ExpectedNote(parsed.root, trDelta) \o parsed.suffix
                         \o (IF parsed.hasBass
                             THEN <<"/">> \o ExpectedNote(parsed.bass, trDelta)
                             ELSE <<>>)

-----------------------------------------------------------------------------
(* Index page properties                                                    *)

\* C24: whatever controls are used, starting from transposition 0, the
\* transposition stays within -2.5 .. +3 tones in 0.5 steps, that is the
\* semitone count handed to the transposer stays within -5 .. 6.
C24_TranspositionInRange == fxTransposition \in -5..6

\* C27: the page shown is an existing page of the current layout:
\* 0 <= currentPage <= totalPages - 1 after any page turns, view changes and
\* the re-paginations they cause.
C27_CurrentPageExists == 0 <= currentPage /\ currentPage <= ixTotalPages - 1
\* the chord with every Unicode sharp or flat sign written as '#' or 'b'
AsciiSpelling(chord) ==
    [k \in 1..Len(chord) |->
        IF chord[k] = USharp THEN "#" ELSE IF chord[k] = UFlat THEN "b" ELSE chord[k]]

HasUnicodeAccidental(chord) == Len(chord) >= 2 /\ chord[2] \in {USharp, UFlat}

\* C25: a Unicode sharp or flat sign directly after the root letter is the
\* root's accidental: transposing the chord written with the Unicode sign by n
\* gives, up to the spelling of the signs, what transposing the chord written
\* with '#' or 'b' by n gives (same pitch, same suffix).
C25_UnicodeAccidentalIsRoot ==
    (trPc = "done" /\ HasUnicodeAccidental(trChord)) =>
        AsciiSpelling(transposed) = transposeChord(AsciiSpelling(trChord), trDelta)
-----------------------------------------------------------------------------
(* Snapping in the later chord groups                                        *)

\* the chord segments of segs that come after another chord segment
LaterGroups(segs) ==
    {k \in 1..Len(segs) : segs[k].group # <<>> /\ \E h \in 1..(k - 1) : segs[h].group # <<>>}

\* lastEnd when the loop reaches the chord segment k of segs
LastEndIn(segs, k) ==
    IF k = 1 THEN 0
    ELSE IF segs[k - 1].group = <<>> THEN segs[k - 1].from
    ELSE segs[k - 1].to

\* the snap condition holds for chord c when the previous segment ended at lastEnd
SnapHolds(lastEnd, c) == computeSnappedAt(sgLyrics, lastEnd, c.at) # ClampedAt(c)

\* every chord of the later groups of segs is where its clamped raw offset
\* is, which is where the previous segment ended, and does not snap
LaterChordsUnmoved(segs) ==
    \A k \in LaterGroups(segs) :
        /\ segs[k - 1].group # <<>>
        /\ segs[k - 1].to = segs[k].from
        /\ \A m \in 1..Len(segs[k].group) :
               /\ ClampedAt(segs[k].group[m]) = segs[k].from
               /\ ~SnapHolds(LastEndIn(segs, k), segs[k].group[m])

\* the same for the first chord of each later group; the chords merged into
\* the group after it snap, or clamp, to the group's start
LaterGroupsUnmoved(segs) ==
    \A k \in LaterGroups(segs) :
        /\ segs[k - 1].group # <<>>
        /\ segs[k - 1].to = segs[k].from
        /\ ClampedAt(segs[k].group[1]) = segs[k].from
        /\ ~SnapHolds(LastEndIn(segs, k), segs[k].group[1])
        /\ \A m \in 2..Len(segs[k].group) :
               computeSnappedAt(sgLyrics, LastEndIn(segs, k), segs[k].group[m].at)
                   = segs[k].from

\* C26: word-boundary snapping can move only the first chord group of a
\* line: for every later chord group the previous segment ends exactly at the
\* chord's clamped raw offset, so the snap condition never holds there and the
\* group's segment starts at the clamped raw offset; in both snapping versions.
C26_SnapMovesOnlyFirstGroup ==
    sgPc = "done" => LaterChordsUnmoved(segments) /\ LaterChordsUnmoved(snapSegments)

\* C26, amended: for every later chord group the previous segment ends exactly
\* at the clamped raw offset of the group's first chord, the snap condition
\* does not hold for that chord and the group's segment starts there.  In the
\* merging version the snap condition can hold for a following chord of the
\* same word: that chord is merged into the group and shown at the group's
\* start, before its own clamped offset.
C26_SnapMovesNoLaterGroupStart ==
    sgPc = "done" => LaterGroupsUnmoved(segments) /\ LaterGroupsUnmoved(snapSegments)

C26_Witness ==
    /\ sgPc = "done"
    /\ LaterGroups(snapSegments) # {}
    /\ \E k \in LaterGroups(segments) :
           /\ Len(segments[k].group) >= 2
           /\ SnapHolds(LastEndIn(segments, k), segments[k].group[2])
-----------------------------------------------------------------------------
(* Columns of a page after the balance pass                                  *)

\* every line was measured, with a positive height that fits a column
HeightsPositiveAndFit ==
    /\ Len(pgHeights) = Len(pgLines)
    /\ \A i \in 1..Len(pgHeights) : pgHeights[i] \in 1..pgContainerHeight

\* the number of greedy columns that fall on page p (1-based)
GreedyColsOfPage(p) == Min(pgCols, Len(greedyColumns) - (p - 1) * pgCols)

\* C28: for positive heights that each fit the container, every page of the
\* balance pass has exactly as many non-empty columns as the greedy pass put on
\* that page, and they come before all the empty padding columns: column c of
\* page p is non-empty exactly when c is at most the page's greedy column count.
C28_BalanceKeepsColumnCount ==
    (pgPc = "done" /\ pgLines # <<>> /\ HeightsPositiveAndFit) =>
        /\ Len(newPages) = CeilDiv(Len(greedyColumns), pgCols)
        /\ \A p \in 1..Len(newPages) :
               /\ Len(newPages[p]) = pgCols
               /\ \A c \in 1..pgCols :
                      newPages[p][c] # <<>> <=> c <= GreedyColsOfPage(p)

\* two pages, the balance pass has moved a line of the first page to another
\* column, and the last page is padded
C28_Witness ==
    /\ pgPc = "done" /\ pgLines # <<>> /\ HeightsPositiveAndFit
    /\ Len(newPages) = 2
    /\ \E c \in 1..pgCols : newPages[1][c] # greedyColumns[c].lines
    /\ GreedyColsOfPage(2) < pgCols
-----------------------------------------------------------------------------
(* Auto-scale properties                                                     *)

ViewInputsUnchanged == UNCHANGED <<fxLines, fxTransposition, fxFontSize, viewport, columnCount>>

ScaleAndPagesUnchanged == UNCHANGED <<fontScale, pages>>

\* C29: once the view inputs stop changing, auto font scaling and pagination
\* update each other only finitely often: from some point on fontScale and
\* pages change no more.
C29_ScaleLoopTerminates ==
    <>[][ViewInputsUnchanged]_vars => <>[][ScaleAndPagesUnchanged]_vars
-----------------------------------------------------------------------------
(* Borrow passes                                                             *)

\* The texts a list of segments can stand for: a text that is just a no-break
\* space is the placeholder of an empty segment (the segments in empties) or
\* that character of the lyrics.
JoinedText(segs, empties) ==
    Flatten([k \in 1..Len(segs) |->
                IF k \in empties /\ segs[k].text = <<NBSP>> THEN <<>> ELSE segs[k].text])

JoinedTexts(segs) == {JoinedText(segs, empties) : empties \in SUBSET (1..Len(segs))}

SameSegmentsUpToTextSplit(before, after) ==
    /\ Len(after) = Len(before)
    /\ \A k \in 1..Len(before) : after[k].chord = before[k].chord
    /\ sgLyrics \in JoinedTexts(before) => sgLyrics \in JoinedTexts(after)

\* the passes on lyrics without a no-break space
BorrowKeepsPlainText ==
    (sgPc = "done" /\ sgLyrics # <<>> /\ sgChords # <<>>
        /\ \A p \in 1..Len(sgLyrics) : sgLyrics[p] # NBSP) =>
        /\ JoinedText(plainSegments, 1..Len(plainSegments)) = sgLyrics
        /\ JoinedText(borrowedFromNext, 1..Len(borrowedFromNext)) = sgLyrics
        /\ JoinedText(borrowedSegments, 1..Len(borrowedSegments)) = sgLyrics

\* C30: each of the two borrow passes keeps the number of segments, every
\* chord label and the in-order concatenation of the segment texts (placeholder
\* counted as empty): the segments before and after a pass spell the same
\* lyrics.
C30_BorrowKeepsSegmentsAndText ==
    (sgPc = "done" /\ sgLyrics # <<>> /\ sgChords # <<>>) =>
        /\ SameSegmentsUpToTextSplit(plainSegments, borrowedFromNext)
        /\ SameSegmentsUpToTextSplit(borrowedFromNext, borrowedSegments)

====
